---- MODULE Spec2Model ----
(***************************************************************************)
(* Curriculum editor: incremental module extraction from a streamed JSON   *)
(* document, the streaming transport's read loop, and the curriculum       *)
(* reducer.  Text is modelled as sequences of one-character strings.       *)
(***************************************************************************)
EXTENDS Integers, Sequences, FiniteSets, TLC

VARIABLES
    doc,          \* extractor and framing runs: the whole text the stream will deliver
    cuts,         \* extractor and framing runs: lengths at which the text may be cut
    closure,      \* extractor runs: accumulatedText / parseState of one handleUpload
    lastModules,  \* extractor runs: the modules returned by the latest call
    extracted,    \* extractor runs: all modules returned so far, in call order
    sse,          \* framing runs: the read loop's buffer and the events it dispatched
    curriculum,   \* CurriculumProvider: the reducer's state
    isLoading,    \* CurriculumProvider: isLoading
    nextId,       \* the number of generateId calls made so far
    threw,        \* whether the reducer has raised
    ops,          \* one record per handleUpload call, in call order
    intents,      \* the number of user intents dispatched so far
    intent,       \* the latest user intent dispatched
    history,      \* the user intents dispatched so far, in order
    snackbar,     \* CurriculumEditor: the snackbar state
    progress,     \* estimator runs: the value estimateProgress returned last
    status,       \* CurriculumEditor: the latest setStreamingStatus call
    inline,       \* InlineEdit runs: one InlineEdit component and its parent's value
    now           \* Date.now(), in milliseconds

xvars == <<doc, cuts, closure, lastModules, extracted>>
avars == <<curriculum, isLoading, nextId, threw, ops, intents, intent, history, snackbar>>
vars == <<xvars, sse, avars, progress, inline, status, now>>

(***************************************************************************)
(* Bounds                                                                  *)
(***************************************************************************)
MaxClock == 2
StartTime == 1000
TickMs == 100

(***************************************************************************)
(* Characters and text                                                     *)
(***************************************************************************)
Q == "\""
BS == "\\"
LB == "{"
RB == "}"
LS == "["
RS == "]"
CO == ":"
CM == ","
SP == " "

Quoted(s) == <<Q>> \o s \o <<Q>>

W_modules == <<"m", "o", "d", "u", "l", "e", "s">>
W_title == <<"t", "i", "t", "l", "e">>
W_description == <<"d", "e", "s", "c", "r", "i", "p", "t", "i", "o", "n">>
W_topics == <<"t", "o", "p", "i", "c", "s">>
W_lessons == <<"l", "e", "s", "s", "o", "n", "s">>
W_id == <<"i", "d">>

\* JavaScript's undefined, for a string-valued and for a list-valued property
Undefined == <<"undefined">>
UndefinedList == <<[undefined |-> TRUE]>>

IsSpace(c) == c \in {" ", "\n", "\t", "\r"}
IsDigit(c) == c \in {"0", "1", "2", "3", "4", "5", "6", "7", "8", "9"}

Substring(s, from) == SubSeq(s, from + 1, Len(s))

\* the value of a one-element set: binds an intermediate result once
Only(S) == CHOOSE x \in S : TRUE

RECURSIVE SkipWs(_, _)
SkipWs(s, i) == IF i <= Len(s) /\ IsSpace(s[i]) THEN SkipWs(s, i + 1) ELSE i

StartsWithAt(s, i, w) ==
    /\ i + Len(w) - 1 <= Len(s)
    /\ SubSeq(s, i, i + Len(w) - 1) = w

(***************************************************************************)
(* JSON.parse on the subset of JSON the streamed documents use: objects,   *)
(* arrays, strings with escapes, and unsigned integers.                    *)
(***************************************************************************)
\* the parser's state: the containers that are open (innermost last), what it
\* expects next, and the text of the string or number it is reading
JFrame(kind) == [k |-> kind, keys |-> <<>>, items |-> <<>>, key |-> <<>>]

JStart ==
    [ok |-> TRUE, stack |-> <<>>, mode |-> "value", acc |-> <<>>, isKey |-> FALSE,
     val |-> [k |-> "undefined"]]

JFailed(st) == [st EXCEPT !.ok = FALSE]

\* a complete value: the document itself, or the next item of the open container
JPush(st, v) ==
    IF st.stack = <<>> THEN [st EXCEPT !.val = v, !.mode = "done"]
    ELSE [st EXCEPT !.mode = "after",
                    !.stack[Len(st.stack)] =
                        [@ EXCEPT !.items = Append(@, v),
                                  !.keys = IF st.stack[Len(st.stack)].k = "obj"
                                               THEN Append(@, st.stack[Len(st.stack)].key)
                                               ELSE @]]

\* the innermost container is closed
JPop(st) ==
    LET top == st.stack[Len(st.stack)]
        v == IF top.k = "arr" THEN [k |-> "arr", items |-> top.items]
             ELSE [k |-> "obj", keys |-> top.keys, items |-> top.items]
    IN JPush([st EXCEPT !.stack = SubSeq(@, 1, Len(@) - 1)], v)

\* a character outside strings and numbers
JStructural(st, c) ==
    IF IsSpace(c) THEN st
    ELSE IF st.mode \in {"value", "first"} THEN
        IF c = Q THEN [st EXCEPT !.mode = "str", !.acc = <<>>, !.isKey = FALSE]
        ELSE IF c = LB THEN [st EXCEPT !.stack = Append(@, JFrame("obj")), !.mode = "key1"]
        ELSE IF c = LS THEN [st EXCEPT !.stack = Append(@, JFrame("arr")), !.mode = "first"]
        ELSE IF IsDigit(c) THEN [st EXCEPT !.mode = "num", !.acc = <<c>>]
        ELSE IF c = RS /\ st.mode = "first" THEN JPop(st)
        ELSE JFailed(st)
    ELSE IF st.mode \in {"key1", "key"} THEN
        IF c = Q THEN [st EXCEPT !.mode = "str", !.acc = <<>>, !.isKey = TRUE]
        ELSE IF c = RB /\ st.mode = "key1" THEN JPop(st)
        ELSE JFailed(st)
    ELSE IF st.mode = "colon" THEN
        IF c = CO THEN [st EXCEPT !.mode = "value"] ELSE JFailed(st)
    ELSE IF st.mode = "after" THEN
        IF c = CM
            THEN [st EXCEPT !.mode = IF st.stack[Len(st.stack)].k = "arr"
                                         THEN "value" ELSE "key"]
        ELSE IF c = RS /\ st.stack[Len(st.stack)].k = "arr" THEN JPop(st)
        ELSE IF c = RB /\ st.stack[Len(st.stack)].k = "obj" THEN JPop(st)
        ELSE JFailed(st)
    ELSE JFailed(st)

\* the parser reads one character
JStep(st, c) ==
    IF ~st.ok THEN st
    ELSE IF st.mode = "str" THEN
        IF c = Q THEN
            IF st.isKey
                THEN [st EXCEPT !.mode = "colon", !.stack[Len(st.stack)].key = st.acc]
                ELSE JPush(st, [k |-> "str", s |-> st.acc])
        ELSE IF c = BS THEN [st EXCEPT !.mode = "esc"]
        ELSE IF c \in {"\n", "\t", "\r"} THEN JFailed(st)
        ELSE [st EXCEPT !.acc = Append(@, c)]
    ELSE IF st.mode = "esc" THEN
        IF c \in {Q, BS, "/"} THEN [st EXCEPT !.mode = "str", !.acc = Append(@, c)]
        ELSE IF c = "n" THEN [st EXCEPT !.mode = "str", !.acc = Append(@, "\n")]
        ELSE IF c = "t" THEN [st EXCEPT !.mode = "str", !.acc = Append(@, "\t")]
        ELSE JFailed(st)
    ELSE IF st.mode = "num" THEN
        IF IsDigit(c)
            THEN IF st.acc = <<"0">> THEN JFailed(st) ELSE [st EXCEPT !.acc = Append(@, c)]
            ELSE JStructural(JPush(st, [k |-> "num", s |-> st.acc]), c)
    ELSE JStructural(st, c)

\* the characters lo .. hi of s, in order
RECURSIVE JRead(_, _, _, _)
JRead(s, lo, hi, st) ==
    IF lo > hi THEN st
    ELSE IF lo = hi THEN JStep(st, s[lo])
    ELSE LET mid == (lo + hi) \div 2
         IN Only({JRead(s, mid + 1, hi, half) : half \in {JRead(s, lo, mid, st)}})

JFail == [ok |-> FALSE, val |-> [k |-> "undefined"]]

\* JSON.parse(s): ok is FALSE where it raises a SyntaxError
JSONParse(s) ==
    Only({IF end.ok /\ end.mode = "done" THEN [ok |-> TRUE, val |-> end.val]
          ELSE IF end.ok /\ end.mode = "num" /\ end.stack = <<>>
              THEN [ok |-> TRUE, val |-> [k |-> "num", s |-> end.acc]]
          ELSE JFail
          : end \in {JRead(s, 1, Len(s), JStart)}})

\* obj[key] for a parsed value; a repeated key keeps its last value
Get(v, key) ==
    IF v.k # "obj" \/ \A n \in 1..Len(v.keys) : v.keys[n] # key
        THEN [k |-> "undefined"]
        ELSE v.items[CHOOSE n \in 1..Len(v.keys) :
                        /\ v.keys[n] = key
                        /\ \A m \in (n + 1)..Len(v.keys) : v.keys[m] # key]

\* JavaScript falsiness of a parsed property (undefined, "", 0)
Falsy(v) ==
    \/ v.k = "undefined"
    \/ v.k = "str" /\ v.s = <<>>
    \/ v.k = "num" /\ v.s = <<"0">>

\* the text of a scalar property, Undefined when it is absent
PropString(v) == IF v.k \in {"str", "num"} THEN v.s ELSE Undefined

\* the parsed object read through the Lesson / Topic / Module interfaces
ToLesson(v) ==
    [id |-> PropString(Get(v, W_id)),
     title |-> PropString(Get(v, W_title)),
     description |-> PropString(Get(v, W_description))]

ToTopic(v) ==
    LET ls == Get(v, W_lessons)
    IN [id |-> PropString(Get(v, W_id)),
        title |-> PropString(Get(v, W_title)),
        description |-> PropString(Get(v, W_description)),
        lessons |-> IF ls.k = "arr"
                        THEN [n \in 1..Len(ls.items) |-> ToLesson(ls.items[n])]
                        ELSE UndefinedList]

ToModule(v) ==
    LET ts == Get(v, W_topics)
    IN [id |-> PropString(Get(v, W_id)),
        title |-> PropString(Get(v, W_title)),
        description |-> PropString(Get(v, W_description)),
        topics |-> IF ts.k = "arr"
                       THEN [n \in 1..Len(ts.items) |-> ToTopic(ts.items[n])]
                       ELSE UndefinedList]

(***************************************************************************)
(* incrementalParser.ts: extractCompleteModules                            *)
(***************************************************************************)
\* /"modules"\s*:\s*\[/ tried at position i: the index of the "[" it ends
\* with, 0 when it does not match there
ModulesMatchAt(s, i) ==
    IF ~StartsWithAt(s, i, Quoted(W_modules)) THEN 0
    ELSE LET c == SkipWs(s, i + Len(W_modules) + 2)
         IN IF c > Len(s) \/ s[c] # CO THEN 0
            ELSE LET b == SkipWs(s, c + 1)
                 IN IF b <= Len(s) /\ s[b] = LS THEN b ELSE 0

\* partialJSON.match(...): modulesMatch.index + modulesMatch[0].length of the
\* leftmost match at or after position i, -1 when there is none
FirstModulesMatch(s, i) ==
    LET hits == {n \in i..Len(s) : s[n] = Q /\ ModulesMatchAt(s, n) # 0}
    IN IF hits = {} THEN -1
       ELSE ModulesMatchAt(s, CHOOSE n \in hits : \A m \in hits : n <= m)

ModulesStartIndex(partialJSON) == FirstModulesMatch(partialJSON, 1)

\* `temp-${Date.now()}-${newModules.length}`
TempId(nowMs, n) == <<"t", "e", "m", "p", "-", ToString(nowMs), "-", ToString(n)>>

\* JSON.parse(moduleJSON) as Module, with the id added when it is missing
ParsedModule(v, nowMs, n) ==
    IF Falsy(Get(v, W_id))
        THEN [ToModule(v) EXCEPT !.id = TempId(nowMs, n)]
        ELSE ToModule(v)

\* a loop body that goes on with the next candidate when one fails to parse
ScanStepSkipping(remainingJSON, i, st, nowMs) ==
    IF st.done THEN st
    ELSE
    LET char == remainingJSON[i + 1]
        inString == IF char = Q /\ ~st.escapeNext THEN ~st.inString ELSE st.inString
        escapeNext == char = BS /\ ~st.escapeNext
        st1 == [st EXCEPT !.inString = inString, !.escapeNext = escapeNext]
    IN IF inString THEN st1
       ELSE IF char = LB
       THEN [st1 EXCEPT !.currentModuleStart = IF st.depth = 0 THEN i ELSE @,
                        !.depth = @ + 1]
       ELSE IF char = RB
       THEN IF st.depth - 1 = 0 /\ st.currentModuleStart # -1
            THEN LET moduleJSON == SubSeq(remainingJSON, st.currentModuleStart + 1, i + 1)
                 IN Only({
                    IF parsed.ok
                    THEN [st1 EXCEPT !.depth = 0,
                                     !.newModules = Append(@,
                                         ParsedModule(parsed.val, nowMs, Len(@))),
                                     !.lastParsedIndex = i + 1,
                                     !.currentModuleStart = -1]
                    ELSE [st1 EXCEPT !.depth = 0,
                                     !.lastParsedIndex = i + 1,
                                     !.currentModuleStart = -1]
                    : parsed \in {JSONParse(moduleJSON)}})
            ELSE [st1 EXCEPT !.depth = @ - 1]
       ELSE st1

\* a loop body that counts the braces inside string literals too
ScanStepCountingStrings(remainingJSON, i, st, nowMs) ==
    IF st.done THEN st
    ELSE
    LET char == remainingJSON[i + 1]
    IN IF char = LB
       THEN [st EXCEPT !.currentModuleStart = IF st.depth = 0 THEN i ELSE @,
                       !.depth = @ + 1]
       ELSE IF char = RB
       THEN IF st.depth - 1 = 0 /\ st.currentModuleStart # -1
            THEN LET moduleJSON == SubSeq(remainingJSON, st.currentModuleStart + 1, i + 1)
                 IN Only({
                    IF parsed.ok
                    THEN [st EXCEPT !.depth = 0,
                                    !.newModules = Append(@,
                                        ParsedModule(parsed.val, nowMs, Len(@))),
                                    !.lastParsedIndex = i + 1,
                                    !.currentModuleStart = -1]
                    ELSE [st EXCEPT !.depth = 0, !.done = TRUE]
                    : parsed \in {JSONParse(moduleJSON)}})
            ELSE [st EXCEPT !.depth = @ - 1]
       ELSE st

\* one iteration of the for loop over remainingJSON, at index i (0-based, as in
\* the source); st holds the loop's variables, and done is set by its break
ScanStep(remainingJSON, i, st, nowMs) ==
    IF st.done THEN st
    ELSE
    LET char == remainingJSON[i + 1]
        inString == IF char = Q /\ ~st.escapeNext THEN ~st.inString ELSE st.inString
        escapeNext == char = BS /\ ~st.escapeNext
        st1 == [st EXCEPT !.inString = inString, !.escapeNext = escapeNext]
    IN IF inString THEN st1
       ELSE IF char = LB
       THEN [st1 EXCEPT !.currentModuleStart = IF st.depth = 0 THEN i ELSE @,
                        !.depth = @ + 1]
       ELSE IF char = RB
       THEN IF st.depth - 1 = 0 /\ st.currentModuleStart # -1
            THEN LET moduleJSON == SubSeq(remainingJSON, st.currentModuleStart + 1, i + 1)
                 IN Only({
                    IF parsed.ok
                    THEN [st1 EXCEPT !.depth = 0,
                                     !.newModules = Append(@,
                                         ParsedModule(parsed.val, nowMs, Len(@))),
                                     !.lastParsedIndex = i + 1,
                                     !.currentModuleStart = -1]
                    ELSE [st1 EXCEPT !.depth = 0, !.done = TRUE]
                    : parsed \in {JSONParse(moduleJSON)}})
            ELSE [st1 EXCEPT !.depth = @ - 1]
       ELSE st1

\* the iterations lo .. hi-1 of the loop, in order
RECURSIVE ScanModules(_, _, _, _, _)
ScanModules(remainingJSON, lo, hi, st, nowMs) ==
    IF lo >= hi THEN st
    ELSE IF hi = lo + 1 THEN ScanStep(remainingJSON, lo, st, nowMs)
    ELSE LET mid == (lo + hi) \div 2
         IN Only({ScanModules(remainingJSON, mid, hi, half, nowMs)
                  : half \in {ScanModules(remainingJSON, lo, mid, st, nowMs)}})

InitialParseState == [completeModules |-> <<>>, lastParsedIndex |-> 0]

\* a scan that forgets the threaded state and starts over at the array's start
LoopStartAtZero(state) == 0

\* for (let i = state.lastParsedIndex; ...)
LoopStart(state) == state.lastParsedIndex

\* an extractor that returns the index it scanned from the call's start, not
\* from the array's start
extractCompleteModulesRelative(partialJSON, state, nowMs) ==
    LET modulesStartIndex == ModulesStartIndex(partialJSON)
    IN IF modulesStartIndex = -1 THEN [modules |-> <<>>, state |-> state]
       ELSE LET remainingJSON == Substring(partialJSON, modulesStartIndex)
            IN Only({
                [modules |-> end.newModules,
                 state |-> [completeModules |-> state.completeModules \o end.newModules,
                            lastParsedIndex |->
                                end.lastParsedIndex - state.lastParsedIndex]]
                : end \in {ScanModules(remainingJSON, LoopStart(state),
                              Len(remainingJSON),
                              [depth |-> 0, currentModuleStart |-> -1,
                               inString |-> FALSE, escapeNext |-> FALSE,
                               newModules |-> <<>>,
                               lastParsedIndex |-> state.lastParsedIndex,
                               done |-> FALSE], nowMs)}})

extractCompleteModules(partialJSON, state, nowMs) ==
    LET modulesStartIndex == ModulesStartIndex(partialJSON)
    IN IF modulesStartIndex = -1 THEN [modules |-> <<>>, state |-> state]
       ELSE LET remainingJSON == Substring(partialJSON, modulesStartIndex)
            IN Only({
                [modules |-> end.newModules,
                 state |-> [completeModules |-> state.completeModules \o end.newModules,
                            lastParsedIndex |-> end.lastParsedIndex]]
                : end \in {ScanModules(remainingJSON, LoopStart(state),
                              Len(remainingJSON),
                              [depth |-> 0, currentModuleStart |-> -1,
                               inString |-> FALSE, escapeNext |-> FALSE,
                               newModules |-> <<>>,
                               lastParsedIndex |-> state.lastParsedIndex,
                               done |-> FALSE], nowMs)}})

(***************************************************************************)
(* incrementalParser.ts: estimateProgress.  The number it returns is kept  *)
(* as the exact fraction num / den                                         *)
(***************************************************************************)
\* (text.match(/c/g) || []).length
CountOf(text, c) == Cardinality({n \in 1..Len(text) : text[n] = c})

Max(a, b) == IF a >= b THEN a ELSE b

\* Math.ceil(n / d) for n >= 0, d > 0
CeilDiv(n, d) == (n + d - 1) \div d

\* no value of the estimator yet
NotEstimated == [estimated |-> FALSE]

Number(num, den) == [estimated |-> TRUE, num |-> num, den |-> den]

\* an estimator that does not cap its result
estimateProgressUncapped(partialJSON) ==
    LET start == ModulesStartIndex(partialJSON)
    IN IF start = -1 THEN Number(0, 1)
       ELSE LET modulesContent == Substring(partialJSON, start)
                openBraces == CountOf(modulesContent, LB)
                closeBraces == CountOf(modulesContent, RB)
                estimatedTotalModules == Max(3, CeilDiv(openBraces, 100))
                completedModules == closeBraces \div 100
            IN Number(completedModules * 100, estimatedTotalModules)

\* modulesMatch[1] is all the text after the "[" of the leftmost match
estimateProgress(partialJSON) ==
    LET start == ModulesStartIndex(partialJSON)
    IN IF start = -1 THEN Number(0, 1)
       ELSE LET modulesContent == Substring(partialJSON, start)
                openBraces == CountOf(modulesContent, LB)
                closeBraces == CountOf(modulesContent, RB)
                estimatedTotalModules == Max(3, CeilDiv(openBraces, 100))
                completedModules == closeBraces \div 100
            IN \* Math.min(95, (completedModules / estimatedTotalModules) * 100)
               IF completedModules * 100 > 95 * estimatedTotalModules
                   THEN Number(95, 1)
                   ELSE Number(completedModules * 100, estimatedTotalModules)

(***************************************************************************)
(* CurriculumEditor.tsx: the chunk callback of handleUpload                *)
(***************************************************************************)
STATUS_UPDATE_THROTTLE == 200

InitialClosure ==
    [accumulatedText |-> <<>>, parseState |-> InitialParseState, lastStatusUpdate |-> 0]

\* a chunk callback that calls setStreamingStatus on every chunk
ChunkCallbackUnthrottled(c, chunk, nowMs) ==
    LET accumulatedText == c.accumulatedText \o chunk
    IN Only({
        [closure |-> [accumulatedText |-> accumulatedText,
                      parseState |-> r.state,
                      lastStatusUpdate |-> nowMs],
         newModules |-> r.modules,
         emit |-> TRUE]
        : r \in {extractCompleteModules(accumulatedText, c.parseState, nowMs)}})

\* (chunk, index) => { ... }: the closure's variables after the call, the
\* modules it dispatches as ADD_PROGRESSIVE_MODULE, and whether it calls
\* setStreamingStatus
ChunkCallback(c, chunk, nowMs) ==
    LET accumulatedText == c.accumulatedText \o chunk
    IN Only({
        LET emit == \/ nowMs - c.lastStatusUpdate >= STATUS_UPDATE_THROTTLE
                    \/ Len(r.modules) > 0
        IN [closure |-> [accumulatedText |-> accumulatedText,
                         parseState |-> r.state,
                         lastStatusUpdate |-> IF emit THEN nowMs ELSE c.lastStatusUpdate],
            newModules |-> r.modules,
            emit |-> emit]
        : r \in {extractCompleteModules(accumulatedText, c.parseState, nowMs)}})

(***************************************************************************)
(* generateId.ts and CurriculumContext: the reducer.  uuidv4 is modelled by *)
(* a counter: the n-th call returns the n-th identifier.                   *)
(***************************************************************************)
generateId(n) == <<"u", "u", "i", "d", "-", ToString(n)>>

initialCurriculum ==
    [id |-> generateId(0), title |-> <<>>, description |-> <<>>, modules |-> <<>>]

\* `Module ${n}`, `Topic ${n}`, `Lesson ${n}`
W_Module == <<"M", "o", "d", "u", "l", "e">>
W_Topic == <<"T", "o", "p", "i", "c">>
W_Lesson == <<"L", "e", "s", "s", "o", "n">>
DefaultTitle(word, n) == word \o <<SP, ToString(n)>>

\* { ...entity, ...(title !== undefined && { title }), ...(description ...) }
MergeFields(entity, payload) ==
    [entity EXCEPT !.title = IF payload.title # Undefined THEN payload.title ELSE @,
                   !.description = IF payload.description # Undefined
                                       THEN payload.description ELSE @]

\* array.filter(x => x.id !== id)
WithoutId(entities, id) == SelectSeq(entities, LAMBDA x : x.id # id)

\* the number of entities with this id among the first n of a sequence
MatchesUpTo(entities, id, n) == Cardinality({k \in 1..n : entities[k].id = id})

\* reading .length, .map or .filter of an undefined list raises a TypeError
TopicsRaise(modules, moduleId) ==
    \E n \in 1..Len(modules) :
        modules[n].id = moduleId /\ modules[n].topics = UndefinedList

LessonsRaise(modules, moduleId, topicId) ==
    \/ TopicsRaise(modules, moduleId)
    \/ \E n \in 1..Len(modules) :
          /\ modules[n].id = moduleId
          /\ \E t \in 1..Len(modules[n].topics) :
                /\ modules[n].topics[t].id = topicId
                /\ modules[n].topics[t].lessons = UndefinedList

\* whether the reducer raises instead of returning a tree
ReducerRaises(state, action) ==
    CASE action.type = "ADD_TOPIC" -> TopicsRaise(state.modules, action.payload)
      [] action.type \in {"UPDATE_TOPIC", "DELETE_TOPIC"} ->
            TopicsRaise(state.modules, action.payload.moduleId)
      [] action.type = "ADD_LESSON" ->
            LessonsRaise(state.modules, action.payload.moduleId, action.payload.topicId)
      [] action.type \in {"UPDATE_LESSON", "DELETE_LESSON"} ->
            LessonsRaise(state.modules, action.payload.moduleId, action.payload.topicId)
      [] OTHER -> FALSE

\* generateId calls ADD_LESSON makes for the first n modules
LessonCalls(modules, moduleId, topicId, n) ==
    Cardinality(UNION {{<<k, t>> : t \in {u \in 1..Len(modules[k].topics) :
                                            modules[k].topics[u].id = topicId}}
                       : k \in {m \in 1..n : modules[m].id = moduleId}})

\* the cases of the reducer; idCalls is the number of generateId calls made
\* before the reducer runs
\* a reset that hands back the initial tree, identifier included
ReduceResetToInitial(idCalls) == initialCurriculum

ReduceResetForProgressive(idCalls) ==
    [initialCurriculum EXCEPT !.id = generateId(idCalls)]

\* an ADD_PROGRESSIVE_MODULE that puts the module first
ReduceAddProgressiveModuleFirst(state, payload) ==
    [state EXCEPT !.modules = <<payload>> \o @]

ReduceAddProgressiveModule(state, payload) ==
    [state EXCEPT !.modules = Append(@, payload)]

\* an ADD_MODULE that numbers the title by the modules created so far rather
\* than by the modules in the tree
ReduceAddModuleCounting(state, idCalls) ==
    [state EXCEPT !.modules = Append(@,
        [id |-> generateId(idCalls),
         title |-> DefaultTitle(W_Module, idCalls),
         description |-> <<>>,
         topics |-> <<>>])]

ReduceAddModule(state, idCalls) ==
    [state EXCEPT !.modules = Append(@,
        [id |-> generateId(idCalls),
         title |-> DefaultTitle(W_Module, Len(state.modules) + 1),
         description |-> <<>>,
         topics |-> <<>>])]

ReduceUpdateModule(state, payload) ==
    [state EXCEPT !.modules =
        [n \in 1..Len(@) |->
            IF @[n].id = payload.moduleId THEN MergeFields(@[n], payload) ELSE @[n]]]

\* a DELETE_MODULE that renumbers the titles of the modules that stay
ReduceDeleteModuleRenumbering(state, payload) ==
    [state EXCEPT !.modules =
        [n \in 1..Len(WithoutId(@, payload)) |->
            [WithoutId(@, payload)[n] EXCEPT !.title = DefaultTitle(W_Module, n)]]]

ReduceDeleteModule(state, payload) ==
    [state EXCEPT !.modules = WithoutId(@, payload)]

ReduceAddTopic(state, payload, idCalls) ==
    [state EXCEPT !.modules =
        [n \in 1..Len(@) |->
            IF @[n].id # payload THEN @[n]
            ELSE [@[n] EXCEPT !.topics = Append(@,
                    [id |-> generateId(idCalls + MatchesUpTo(state.modules, payload, n - 1)),
                     title |-> DefaultTitle(W_Topic, Len(state.modules[n].topics) + 1),
                     description |-> <<>>,
                     lessons |-> <<>>])]]]

ReduceUpdateTopic(state, payload) ==
    [state EXCEPT !.modules =
        [n \in 1..Len(@) |->
            IF @[n].id # payload.moduleId THEN @[n]
            ELSE [@[n] EXCEPT !.topics =
                    [t \in 1..Len(@) |->
                        IF @[t].id = payload.topicId
                            THEN MergeFields(@[t], payload) ELSE @[t]]]]]

ReduceDeleteTopic(state, payload) ==
    [state EXCEPT !.modules =
        [n \in 1..Len(@) |->
            IF @[n].id # payload.moduleId THEN @[n]
            ELSE [@[n] EXCEPT !.topics = WithoutId(@, payload.topicId)]]]

ReduceAddLesson(state, payload, idCalls) ==
    [state EXCEPT !.modules =
        [n \in 1..Len(@) |->
            IF @[n].id # payload.moduleId THEN @[n]
            ELSE [@[n] EXCEPT !.topics =
                    [t \in 1..Len(@) |->
                        IF @[t].id # payload.topicId THEN @[t]
                        ELSE [@[t] EXCEPT !.lessons = Append(@,
                                [id |-> generateId(
                                     idCalls
                                     + LessonCalls(state.modules, payload.moduleId,
                                                   payload.topicId, n - 1)
                                     + MatchesUpTo(state.modules[n].topics,
                                                   payload.topicId, t - 1)),
                                 title |-> DefaultTitle(W_Lesson,
                                     Len(state.modules[n].topics[t].lessons) + 1),
                                 description |-> <<>>])]]]]]

ReduceUpdateLesson(state, payload) ==
    [state EXCEPT !.modules =
        [n \in 1..Len(@) |->
            IF @[n].id # payload.moduleId THEN @[n]
            ELSE [@[n] EXCEPT !.topics =
                    [t \in 1..Len(@) |->
                        IF @[t].id # payload.topicId THEN @[t]
                        ELSE [@[t] EXCEPT !.lessons =
                                [l \in 1..Len(@) |->
                                    IF @[l].id = payload.lessonId
                                        THEN MergeFields(@[l], payload) ELSE @[l]]]]]]]

ReduceDeleteLesson(state, payload) ==
    [state EXCEPT !.modules =
        [n \in 1..Len(@) |->
            IF @[n].id # payload.moduleId THEN @[n]
            ELSE [@[n] EXCEPT !.topics =
                    [t \in 1..Len(@) |->
                        IF @[t].id # payload.topicId THEN @[t]
                        ELSE [@[t] EXCEPT !.lessons =
                                WithoutId(@, payload.lessonId)]]]]]

\* the tree returned by the reducer when it does not raise
ReducerTree(state, action, idCalls) ==
    CASE action.type = "SET_CURRICULUM" -> action.payload
      [] action.type = "RESET_FOR_PROGRESSIVE" -> ReduceResetForProgressive(idCalls)
      [] action.type = "ADD_PROGRESSIVE_MODULE" ->
            ReduceAddProgressiveModule(state, action.payload)
      [] action.type = "UPDATE_CURRICULUM_TITLE" -> [state EXCEPT !.title = action.payload]
      [] action.type = "UPDATE_CURRICULUM_DESCRIPTION" ->
            [state EXCEPT !.description = action.payload]
      [] action.type = "ADD_MODULE" -> ReduceAddModule(state, idCalls)
      [] action.type = "UPDATE_MODULE" -> ReduceUpdateModule(state, action.payload)
      [] action.type = "DELETE_MODULE" -> ReduceDeleteModule(state, action.payload)
      [] action.type = "ADD_TOPIC" -> ReduceAddTopic(state, action.payload, idCalls)
      [] action.type = "UPDATE_TOPIC" -> ReduceUpdateTopic(state, action.payload)
      [] action.type = "DELETE_TOPIC" -> ReduceDeleteTopic(state, action.payload)
      [] action.type = "ADD_LESSON" -> ReduceAddLesson(state, action.payload, idCalls)
      [] action.type = "UPDATE_LESSON" -> ReduceUpdateLesson(state, action.payload)
      [] action.type = "DELETE_LESSON" -> ReduceDeleteLesson(state, action.payload)
      [] OTHER -> state

\* the number of generateId calls the reducer makes for this action
ReducerIdCalls(state, action) ==
    CASE action.type \in {"RESET_FOR_PROGRESSIVE", "ADD_MODULE"} -> 1
      [] action.type = "ADD_TOPIC" ->
            MatchesUpTo(state.modules, action.payload, Len(state.modules))
      [] action.type = "ADD_LESSON" ->
            LessonCalls(state.modules, action.payload.moduleId,
                        action.payload.topicId, Len(state.modules))
      [] OTHER -> 0

\* curriculumReducer(state, action): the tree it returns, or raised; a raising
\* reducer leaves the state it was given
curriculumReducer(state, action, idCalls) ==
    IF ReducerRaises(state, action)
        THEN [raised |-> TRUE, tree |-> state, nextId |-> idCalls]
        ELSE [raised |-> FALSE,
              tree |-> ReducerTree(state, action, idCalls),
              nextId |-> idCalls + ReducerIdCalls(state, action)]

(***************************************************************************)
(* api.ts: generateCurriculumStream, the framing of the response body      *)
(***************************************************************************)
NL == "\n"
W_event == <<"e", "v", "e", "n", "t">>
W_data == <<"d", "a", "t", "a">>
W_progress == <<"p", "r", "o", "g", "r", "e", "s", "s">>
W_chunk == <<"c", "h", "u", "n", "k">>
W_complete == <<"c", "o", "m", "p", "l", "e", "t", "e">>
W_error == <<"e", "r", "r", "o", "r">>
W_curriculum == <<"c", "u", "r", "r", "i", "c", "u", "l", "u", "m">>
W_status == <<"s", "t", "a", "t", "u", "s">>
W_message == <<"m", "e", "s", "s", "a", "g", "e">>
W_code == <<"c", "o", "d", "e">>
W_chunkIndex == <<"c", "h", "u", "n", "k", "I", "n", "d", "e", "x">>
W_aiProvider == <<"a", "i", "P", "r", "o", "v", "i", "d", "e", "r">>

\* s.indexOf(sep, from), 1-based; 0 when sep does not occur
IndexOf(s, sep, from) ==
    LET hits == {i \in from..(Len(s) - Len(sep) + 1) :
                    s[i] = sep[1] /\ SubSeq(s, i, i + Len(sep) - 1) = sep}
    IN IF hits = {} THEN 0 ELSE CHOOSE i \in hits : \A j \in hits : i <= j

\* s.split(sep), for the part of s that starts at from
RECURSIVE SplitFrom(_, _, _)
SplitFrom(s, sep, from) ==
    LET i == IndexOf(s, sep, from)
    IN IF i = 0 THEN <<SubSeq(s, from, Len(s))>>
       ELSE <<SubSeq(s, from, i - 1)>> \o SplitFrom(s, sep, i + Len(sep))

Split(s, sep) == SplitFrom(s, sep, 1)

\* s.trim()
Trim(s) ==
    LET keep == {i \in 1..Len(s) : ~IsSpace(s[i])}
    IN IF keep = {} THEN <<>>
       ELSE SubSeq(s, CHOOSE i \in keep : \A j \in keep : i <= j,
                      CHOOSE i \in keep : \A j \in keep : i >= j)

StartsWith(s, w) == StartsWithAt(s, 1, w)

Null == <<"null">>

\* the last line that starts with the prefix, trimmed after it; Null if none
LastField(lines, prefix) ==
    LET hits == {n \in 1..Len(lines) : StartsWith(lines[n], prefix)}
    IN IF hits = {} THEN Null
       ELSE Trim(Substring(lines[CHOOSE n \in hits : \A m \in hits : n >= m],
                           Len(prefix)))

\* a message loop that treats a data payload it cannot decode as an error event
ParseSSEMessageStrict(message) ==
    IF Trim(message) = <<>> \/ StartsWith(message, <<CO>>) THEN [skip |-> TRUE]
    ELSE LET lines == Split(message, <<NL>>)
             data == LastField(lines, W_data \o <<CO>>)
         IN IF data = Null \/ data = <<>> THEN [skip |-> TRUE]
            ELSE Only({IF parsed.ok
                          THEN [skip |-> FALSE,
                                eventType |-> LastField(lines, W_event \o <<CO>>),
                                parsedData |-> parsed.val]
                          ELSE [skip |-> FALSE, eventType |-> W_error,
                                parsedData |-> [k |-> "undefined"]]
                       : parsed \in {JSONParse(data)}})

\* one message of the for loop, up to JSON.parse: the event handed to the
\* switch, or skip
ParseSSEMessage(message) ==
    IF Trim(message) = <<>> \/ StartsWith(message, <<CO>>) THEN [skip |-> TRUE]
    ELSE LET lines == Split(message, <<NL>>)
             data == LastField(lines, W_data \o <<CO>>)
         IN IF data = Null \/ data = <<>> THEN [skip |-> TRUE]
            ELSE Only({IF parsed.ok
                          THEN [skip |-> FALSE,
                                eventType |-> LastField(lines, W_event \o <<CO>>),
                                parsedData |-> parsed.val]
                          ELSE [skip |-> TRUE]
                       : parsed \in {JSONParse(data)}})

\* a read loop that frames each read on its own and keeps no partial block
ProcessReadUnbuffered(buffer, value) ==
    LET messages == Split(value, <<NL, NL>>)
        parsed == [n \in 1..(Len(messages) - 1) |-> ParseSSEMessage(messages[n])]
    IN [buffer |-> messages[Len(messages)],
        events |-> SelectSeq(parsed, LAMBDA e : ~e.skip)]

\* buffer += decode(value); messages = buffer.split('\n\n'); buffer =
\* messages.pop() || '': the events of the complete messages, and the new buffer
ProcessRead(buffer, value) ==
    LET messages == Split(buffer \o value, <<NL, NL>>)
        parsed == [n \in 1..(Len(messages) - 1) |-> ParseSSEMessage(messages[n])]
    IN [buffer |-> messages[Len(messages)],
        events |-> SelectSeq(parsed, LAMBDA e : ~e.skip)]

\* parsedData.curriculum read through the Curriculum interface
ToCurriculum(v) ==
    LET ms == Get(v, W_modules)
    IN [id |-> PropString(Get(v, W_id)),
        title |-> PropString(Get(v, W_title)),
        description |-> PropString(Get(v, W_description)),
        modules |-> IF ms.k = "arr"
                        THEN [n \in 1..Len(ms.items) |-> ToModule(ms.items[n])]
                        ELSE UndefinedList]

(***************************************************************************)
(* Streamed documents                                                      *)
(***************************************************************************)
KV(key, valueText) == Quoted(key) \o <<CO>> \o valueText
ModulesHead == <<LB>> \o Quoted(W_modules) \o <<CO, LS>>
ModulesTail == <<RS, RB>>

ModuleA == <<LB>> \o KV(W_title, Quoted(<<"A">>)) \o <<RB>>
ModuleB == <<LB>> \o KV(W_id, Quoted(<<"b">>)) \o <<CM>> \o KV(W_title, Quoted(<<"B">>)) \o <<RB>>
\* {"title":"}\"\\","topics":[{"lessons":[{"id":"l"}]}]}
ModuleNested ==
    <<LB>> \o KV(W_title, <<Q, RB, BS, Q, BS, BS, Q>>) \o <<CM>>
    \o KV(W_topics, <<LS, LB>> \o KV(W_lessons, <<LS, LB>> \o KV(W_id, Quoted(<<"l">>))
                                                \o <<RB, RS>>) \o <<RB, RS>>)
    \o <<RB>>

DocTwo == ModulesHead \o ModuleA \o <<CM>> \o ModuleB \o ModulesTail
DocNested == ModulesHead \o ModuleNested \o <<CM>> \o ModuleA \o ModulesTail
\* {"modules" : [ {"title":"A"} , {} ] }
DocSpaced ==
    <<LB>> \o Quoted(W_modules) \o <<SP, CO, SP, LS, SP>> \o ModuleA
    \o <<SP, CM, SP, LB, RB, SP, RS, SP, RB>>
\* {"modules":[{"title":"A"}],"x":{}}
DocTrailing == ModulesHead \o ModuleA \o <<RS, CM>> \o KV(<<"x">>, <<LB, RB>>) \o <<RB>>

\* {"modules":[{"title":"A"},{b},{"id":"b","title":"B"}]}
BadCandidate == <<LB, "b", RB>>
DocBad ==
    ModulesHead \o ModuleA \o <<CM>> \o BadCandidate \o <<CM>> \o ModuleB \o ModulesTail

\* {"modules":[{"title":"M1","description":"d1","topics":[]}   followed by   }]}
RoundTripText ==
    ModulesHead \o <<LB>> \o KV(W_title, Quoted(<<"M", "1">>)) \o <<CM>>
    \o KV(W_description, Quoted(<<"d", "1">>)) \o <<CM>>
    \o KV(W_topics, <<LS, RS>>) \o <<RB>>
RoundTripRest == <<RB, RS, RB>>
DocRoundTrip == RoundTripText \o RoundTripRest

InitialSSE ==
    [buffer |-> <<>>, events |-> <<>>, fed |-> 0, cutInLine |-> FALSE,
     cutInTerminator |-> FALSE]
NoIntent == [type |-> "NONE"]
\* useState<StreamingStatus | null>(null), and what setStreamingStatus is called
\* with: the call that wrote the status, when, its modulesGenerated, and the
\* number of setStreamingStatus calls made so far
NoStatus == [by |-> "none", at |-> 0, modulesGenerated |-> 0, count |-> 0]
StatusUpdate(prev, by, nowMs, modulesGenerated) ==
    [by |-> by, at |-> nowMs, modulesGenerated |-> modulesGenerated,
     count |-> prev.count + 1]
\* no InlineEdit component is observed
NoInlineEdit == [mounted |-> FALSE]
\* useState({ open: false, message: '', severity: 'success' })
InitialSnackbar == [open |-> FALSE, message |-> <<>>, severity |-> "success"]

AnyCut(text) == [text |-> text, cuts |-> 1..Len(text)]

ExtractInputs ==
    {AnyCut(DocTwo), AnyCut(DocNested), AnyCut(DocSpaced), AnyCut(DocTrailing),
     AnyCut(DocBad),
     [text |-> DocRoundTrip, cuts |-> {Len(RoundTripText), Len(DocRoundTrip)}]}

(***************************************************************************)
(* SpecExtract: one handleUpload's chunk callback, fed a document in       *)
(* pieces cut at arbitrary places                                          *)
(***************************************************************************)
InitExtract ==
    /\ \E d \in ExtractInputs : doc = d.text /\ cuts = d.cuts
    /\ closure = InitialClosure
    /\ lastModules = <<>>
    /\ extracted = <<>>
    /\ now = StartTime
    /\ sse = InitialSSE
    /\ curriculum = initialCurriculum
    /\ isLoading = FALSE
    /\ nextId = 1
    /\ threw = FALSE
    /\ ops = <<>>
    /\ intents = 0
    /\ intent = NoIntent
    /\ history = <<>>
    /\ snackbar = InitialSnackbar
    /\ progress = NotEstimated
    /\ inline = NoInlineEdit
    /\ status = StatusUpdate(NoStatus, "start", StartTime, 0)

FeedChunk ==
    \E n \in cuts :
        /\ n > Len(closure.accumulatedText)
        /\ \E r \in {ChunkCallback(closure,
                        SubSeq(doc, Len(closure.accumulatedText) + 1, n), now)} :
              /\ closure' = r.closure
              /\ lastModules' = r.newModules
              /\ extracted' = extracted \o r.newModules
              /\ status' = IF r.emit
                                THEN StatusUpdate(status, "chunk", now,
                                         Len(r.closure.parseState.completeModules))
                                ELSE status
        /\ UNCHANGED <<inline, progress, doc, cuts, now, sse, avars>>

Tick ==
    /\ now < StartTime + MaxClock * TickMs
    /\ now' = now + TickMs
    /\ UNCHANGED <<status, inline, progress, xvars, sse, avars>>

NextExtract == FeedChunk \/ Tick

SpecExtract == InitExtract /\ [][NextExtract]_vars

(***************************************************************************)
(* SpecStatus: one handleUpload's progress and chunk callbacks              *)
(***************************************************************************)
MaxStatusUpdates == 3

\* (status, message) => setStreamingStatus(prev => ...)
ProgressCallback ==
    /\ status.count < MaxStatusUpdates
    /\ status' = StatusUpdate(status, "progress", now, status.modulesGenerated)
    /\ UNCHANGED <<inline, progress, xvars, now, sse, avars>>

NextStatus == FeedChunk \/ ProgressCallback \/ Tick

SpecStatus == InitExtract /\ [][NextStatus]_vars

(***************************************************************************)
(* The response bodies of the application runs: blocks in the wire format  *)
(***************************************************************************)
MaxUploads == 1
MaxIntents == 1
MaxIds == 5

\* JSON.stringify of a text: quotes and backslashes escaped
RECURSIVE Escaped(_, _)
Escaped(text, n) ==
    IF n > Len(text) THEN <<>>
    ELSE (IF text[n] \in {Q, BS} THEN <<BS, text[n]>> ELSE <<text[n]>>)
         \o Escaped(text, n + 1)

JSONString(text) == Quoted(Escaped(text, 1))

\* event: <name>\ndata: <json>\n\n
SSEBlock(name, json) ==
    W_event \o <<CO, SP>> \o name \o <<NL>> \o W_data \o <<CO, SP>> \o json \o <<NL, NL>>

Obj(members) == <<LB>> \o members \o <<RB>>

ProgressBlock ==
    SSEBlock(W_progress, Obj(KV(W_status, Quoted(<<"s">>)) \o <<CM>>
                             \o KV(W_message, Quoted(<<"m">>))))

ChunkBlock(text, index) ==
    SSEBlock(W_chunk, Obj(KV(W_chunk, JSONString(text)) \o <<CM>>
                          \o KV(W_chunkIndex, <<ToString(index)>>)))

ErrorBlock ==
    SSEBlock(W_error, Obj(KV(W_code, Quoted(<<"E">>)) \o <<CM>>
                          \o KV(W_message, Quoted(<<"e">>))))

\* a chunk block whose data is cut short, so that JSON.parse fails on it
MalformedBlock == SSEBlock(W_chunk, <<LB>> \o Quoted(W_chunk) \o <<CO>>)

Entity(id, title, more) ==
    Obj(KV(W_id, Quoted(id)) \o <<CM>> \o KV(W_title, Quoted(title)) \o <<CM>>
        \o KV(W_description, Quoted(<<>>)) \o more)

\* the authoritative document: one module with two topics, the first of which
\* has two lessons
FinalDocument ==
    Entity(<<"c">>, <<"T">>, <<CM>> \o KV(W_modules, <<LS>> \o
        Entity(<<"m">>, <<"F">>, <<CM>> \o KV(W_topics, <<LS>> \o
            Entity(<<"t">>, <<"G">>, <<CM>> \o KV(W_lessons, <<LS>> \o
                Entity(<<"l">>, <<"H">>, <<>>) \o <<CM>> \o
                Entity(<<"k">>, <<"I">>, <<>>) \o <<RS>>)) \o <<CM>> \o
            Entity(<<"u">>, <<"J">>, <<CM>> \o KV(W_lessons, <<LS, RS>>))
            \o <<RS>>)) \o <<RS>>))

CompleteBlock ==
    SSEBlock(W_complete, Obj(KV(W_curriculum, FinalDocument) \o <<CM>>
                             \o KV(W_aiProvider, Quoted(<<"p">>))))

\* the streamed text, in two fragments:
\*   {"modules":[{"title":"A"}
\*   ,{"title":"B","topics":[{"id":"s","lessons":[]}]}]}
Fragment1 == ModulesHead \o ModuleA
Fragment2 ==
    <<CM, LB>> \o KV(W_title, Quoted(<<"B">>)) \o <<CM>>
    \o KV(W_topics, <<LS, LB>> \o KV(W_id, Quoted(<<"s">>)) \o <<CM>>
                    \o KV(W_lessons, <<LS, RS>>) \o <<RB, RS>>)
    \o <<RB>> \o ModulesTail

BodyComplete == <<ProgressBlock, ChunkBlock(Fragment1, 0), ChunkBlock(Fragment2, 1), CompleteBlock>>
BodyLate == <<ChunkBlock(Fragment1, 0), CompleteBlock, ChunkBlock(Fragment2, 1), ProgressBlock>>
BodyError == <<ChunkBlock(Fragment1, 0), ErrorBlock, ChunkBlock(Fragment2, 1)>>
BodyEnds == <<ChunkBlock(Fragment1, 0), ChunkBlock(Fragment2, 1)>>
BodyMalformed ==
    <<ChunkBlock(Fragment1, 0), MalformedBlock, ChunkBlock(Fragment2, 1), CompleteBlock>>

Bodies == {BodyComplete, BodyLate, BodyError, BodyEnds, BodyMalformed}

(***************************************************************************)
(* Spec: the editor.  handleUpload calls, their response bodies read in     *)
(* batches of whole blocks, and user intents, interleaved                   *)
(***************************************************************************)
\* an ApiError that keeps neither the message nor the code it is given
ApiErrorGeneric(message, code) ==
    [message |-> <<"Unknown error">>, code |-> <<"STREAM_ERROR">>]

\* new ApiError(message, code): Error(message) keeps a text and turns an
\* undefined message into the empty text
ApiError(message, code) ==
    [message |-> IF message = Undefined THEN <<>> ELSE message, code |-> code]

NewOp(body) ==
    [body |-> body,            \* the blocks the server will send
     pos |-> 0,                \* the blocks read so far
     buffer |-> <<>>,          \* generateCurriculumStream: buffer
     phase |-> "requesting",   \* requesting, streaming, returned, failed
     promise |-> "pending",    \* pending, resolved, rejected
     result |-> Null,          \* what the promise was settled with
     handler |-> "awaiting",   \* handleUpload: awaiting the promise, or finished
     requests |-> 1,           \* the fetch calls made for this upload
     dispatched |-> <<>>,      \* the event types the switch has handled, in order
     closure |-> InitialClosure,
     intentsInFlight |-> 0,    \* user intents dispatched while handleUpload awaited
     lateCallback |-> FALSE,   \* a callback ran after the promise was settled
     lateAppend |-> FALSE]     \* a module was appended after the promise was settled

\* appends that rebuild the module sequence from the new modules alone
AppendAllReplacing(tree, modules) ==
    IF modules = <<>> THEN tree ELSE [tree EXCEPT !.modules = modules]

\* newModules.forEach(module => dispatch({ type: 'ADD_PROGRESSIVE_MODULE', ... }))
RECURSIVE AppendAll(_, _)
AppendAll(tree, modules) ==
    IF modules = <<>> THEN tree
    ELSE AppendAll(curriculumReducer(tree, [type |-> "ADD_PROGRESSIVE_MODULE",
                                            payload |-> Head(modules)], 0).tree,
                   Tail(modules))

\* the switch on eventType for one parsed message; w holds the tree and the
\* operation's record
DispatchEvent(w, ev, nowMs) ==
    LET settled == w.op.promise # "pending"
    IN IF ev.eventType = W_progress
           THEN [w EXCEPT !.op.lateCallback = @ \/ settled,
                          !.op.dispatched = Append(@, W_progress),
                          !.status = StatusUpdate(@, "progress", nowMs, @.modulesGenerated)]
       ELSE IF ev.eventType = W_chunk
           THEN Only({[tree |-> AppendAll(w.tree, r.newModules),
                       status |-> IF r.emit
                                      THEN StatusUpdate(w.status, "chunk", nowMs,
                                               Len(r.closure.parseState.completeModules))
                                      ELSE w.status,
                       op |-> [w.op EXCEPT !.closure = r.closure,
                                           !.dispatched = Append(@, W_chunk),
                                           !.lateCallback = @ \/ settled,
                                           !.lateAppend =
                                               @ \/ (settled /\ r.newModules # <<>>)]]
                      : r \in {ChunkCallback(w.op.closure,
                                             PropString(Get(ev.parsedData, W_chunk)),
                                             nowMs)}})
       ELSE IF ev.eventType = W_complete
           THEN IF settled THEN [w EXCEPT !.op.dispatched = Append(@, W_complete)]
                ELSE [w EXCEPT !.op.promise = "resolved",
                               !.op.dispatched = Append(@, W_complete),
                               !.op.result =
                                   [curriculum |->
                                        ToCurriculum(Get(ev.parsedData, W_curriculum)),
                                    aiProvider |->
                                        PropString(Get(ev.parsedData, W_aiProvider))]]
       ELSE IF ev.eventType = W_error
           THEN IF settled THEN [w EXCEPT !.op.dispatched = Append(@, W_error)]
                ELSE [w EXCEPT !.op.promise = "rejected",
                               !.op.dispatched = Append(@, W_error),
                               !.op.result =
                                   ApiError(PropString(Get(ev.parsedData, W_message)),
                                            PropString(Get(ev.parsedData, W_code)))]
       ELSE w

\* for (const message of messages) { ... }
RECURSIVE DispatchAll(_, _, _)
DispatchAll(w, events, nowMs) ==
    IF events = <<>> THEN w
    ELSE Only({DispatchAll(w1, Tail(events), nowMs)
               : w1 \in {DispatchEvent(w, Head(events), nowMs)}})

RECURSIVE Concat(_)
Concat(blocks) == IF blocks = <<>> THEN <<>> ELSE Head(blocks) \o Concat(Tail(blocks))

InitApp ==
    /\ curriculum = initialCurriculum
    /\ isLoading = FALSE
    /\ nextId = 1
    /\ threw = FALSE
    /\ ops = <<>>
    /\ intents = 0
    /\ intent = NoIntent
    /\ history = <<>>
    /\ snackbar = InitialSnackbar
    /\ progress = NotEstimated
    /\ inline = NoInlineEdit
    /\ status = NoStatus
    /\ now = StartTime
    /\ doc = <<>>
    /\ cuts = {}
    /\ closure = InitialClosure
    /\ lastModules = <<>>
    /\ extracted = <<>>
    /\ sse = InitialSSE

\* handleUpload up to its await; the upload controls are disabled while isLoading
StartUpload ==
    /\ ~isLoading
    /\ ~threw
    /\ Len(ops) < MaxUploads
    /\ nextId < MaxIds
    /\ isLoading' = TRUE
    /\ \E r \in {curriculumReducer(curriculum, [type |-> "RESET_FOR_PROGRESSIVE"], nextId)} :
          curriculum' = r.tree /\ nextId' = r.nextId
    /\ \E body \in Bodies : ops' = Append(ops, NewOp(body))
    /\ status' = StatusUpdate(status, "start", now, 0)
    /\ UNCHANGED <<inline, progress, threw, intents, intent, history, snackbar, now, xvars, sse>>

\* fetch resolves with a response that is ok and has a body
ResponseOk(i) ==
    /\ ops[i].phase = "requesting"
    /\ ops' = [ops EXCEPT ![i].phase = "streaming"]
    /\ UNCHANGED <<status, inline, progress, curriculum, isLoading, nextId, threw, intents, intent, history, snackbar, now, xvars, sse>>

HttpError == ApiError(<<"HTTP error! status: 500">>, <<"HTTP_ERROR">>)
NoBodyError == ApiError(<<"No response body">>, <<"NO_RESPONSE_BODY">>)
StreamError == ApiError(<<"network error">>, <<"STREAM_ERROR">>)

\* the response is not ok, or has no body: the ApiError thrown is caught and
\* rejects
ResponseNotOk(i) ==
    /\ ops[i].phase = "requesting"
    /\ \E error \in {HttpError, NoBodyError} :
          ops' = [ops EXCEPT ![i].phase = "failed",
                             ![i].promise = "rejected",
                             ![i].result = error]
    /\ UNCHANGED <<status, inline, progress, curriculum, isLoading, nextId, threw, intents, intent, history, snackbar, now, xvars, sse>>

\* one iteration of the read loop that gets the next k blocks
ReadBlocks(i) ==
    /\ ops[i].phase = "streaming"
    /\ \E k \in 1..(Len(ops[i].body) - ops[i].pos) :
         \E r \in {ProcessRead(ops[i].buffer,
                               Concat(SubSeq(ops[i].body, ops[i].pos + 1, ops[i].pos + k)))} :
           \E w \in {DispatchAll([tree |-> curriculum,
                                  status |-> status,
                                  op |-> [ops[i] EXCEPT !.pos = @ + k,
                                                        !.buffer = r.buffer]],
                                 r.events, now)} :
              /\ curriculum' = w.tree
              /\ status' = w.status
              /\ ops' = [ops EXCEPT ![i] = w.op]
    /\ UNCHANGED <<inline, progress, isLoading, nextId, threw, intents, intent, history, snackbar, now, xvars, sse>>

\* reader.read() reports done: the loop is left and the function returns
ReadDone(i) ==
    /\ ops[i].phase = "streaming"
    /\ ops[i].pos = Len(ops[i].body)
    /\ ops' = [ops EXCEPT ![i].phase = "returned"]
    /\ UNCHANGED <<status, inline, progress, curriculum, isLoading, nextId, threw, intents, intent, history, snackbar, now, xvars, sse>>

\* reader.read() rejects: the catch rejects, which a settled promise ignores
ReadFails(i) ==
    /\ ops[i].phase = "streaming"
    /\ ops' = [ops EXCEPT ![i].phase = "failed",
                          ![i].promise = IF @ = "pending" THEN "rejected" ELSE @,
                          ![i].result = IF ops[i].promise = "pending" THEN StreamError ELSE @]
    /\ UNCHANGED <<status, inline, progress, curriculum, isLoading, nextId, threw, intents, intent, history, snackbar, now, xvars, sse>>

\* `Curriculum generated successfully with ${n} modules using ${aiProvider}!`
SuccessMessage(n, aiProvider) ==
    <<"Curriculum generated successfully with ", ToString(n), " modules using ">>
    \o aiProvider \o <<"!">>

\* handleUpload after its await: SET_CURRICULUM when the promise was resolved,
\* the catch when it was rejected, then the finally block
Resume(i) ==
    /\ ops[i].handler = "awaiting"
    /\ ops[i].promise # "pending"
    /\ curriculum' =
          IF ops[i].promise = "resolved"
              THEN curriculumReducer(curriculum,
                       [type |-> "SET_CURRICULUM",
                        payload |-> ops[i].result.curriculum], nextId).tree
              ELSE curriculum
    /\ snackbar' =
          IF ops[i].promise = "resolved"
              THEN [open |-> TRUE,
                    message |-> SuccessMessage(Len(ops[i].result.curriculum.modules),
                                               ops[i].result.aiProvider),
                    severity |-> "success"]
              ELSE [open |-> TRUE, message |-> ops[i].result.message, severity |-> "error"]
    /\ isLoading' = FALSE
    /\ status' = StatusUpdate(status, "finally", now, 0)
    /\ ops' = [ops EXCEPT ![i].handler = "finished"]
    /\ UNCHANGED <<inline, progress, nextId, threw, intents, intent, history, now, xvars, sse>>

\* what the user types into a title or a description
TitleX == <<"X">>
DescriptionY == <<"Y">>
\* an identifier no entity carries
AbsentId == <<"absent">>

Edits ==
    {[title |-> TitleX, description |-> Undefined],
     [title |-> Undefined, description |-> DescriptionY]}

ModulesWithId(tree, moduleId) ==
    {n \in 1..Len(tree.modules) : tree.modules[n].id = moduleId}

TopicsOf(tree, n) ==
    IF tree.modules[n].topics = UndefinedList THEN <<>> ELSE tree.modules[n].topics

LessonsOf(topic) == IF topic.lessons = UndefinedList THEN <<>> ELSE topic.lessons

\* the identifiers of the entities of a tree, by position
EntityPaths(tree) ==
    {<<>>} \cup {<<n>> : n \in 1..Len(tree.modules)}
    \cup UNION {{<<n, t>> : t \in 1..Len(TopicsOf(tree, n))} : n \in 1..Len(tree.modules)}
    \cup UNION {UNION {{<<n, t, l>> : l \in 1..Len(LessonsOf(TopicsOf(tree, n)[t]))}
                       : t \in 1..Len(TopicsOf(tree, n))}
                : n \in 1..Len(tree.modules)}

IdAt(tree, path) ==
    IF Len(path) = 0 THEN tree.id
    ELSE IF Len(path) = 1 THEN tree.modules[path[1]].id
    ELSE IF Len(path) = 2 THEN tree.modules[path[1]].topics[path[2]].id
    ELSE tree.modules[path[1]].topics[path[2]].lessons[path[3]].id

\* the identifiers an intent may name: those in the tree and an absent one; below
\* a parent that is in the tree, its children's and an absent one
ModuleIdChoices(tree) == {tree.modules[n].id : n \in 1..Len(tree.modules)} \cup {AbsentId}

TopicIdChoices(tree, moduleId) ==
    LET under == IF ModulesWithId(tree, moduleId) = {} THEN 1..Len(tree.modules)
                 ELSE ModulesWithId(tree, moduleId)
    IN UNION {{TopicsOf(tree, n)[t].id : t \in 1..Len(TopicsOf(tree, n))} : n \in under}
       \cup {AbsentId}

LessonIdChoices(tree, moduleId, topicId) ==
    LET topics == UNION {{TopicsOf(tree, n)[t] : t \in 1..Len(TopicsOf(tree, n))}
                         : n \in 1..Len(tree.modules)}
        under == IF \E topic \in topics : topic.id = topicId
                     THEN {topic \in topics : topic.id = topicId}
                     ELSE topics
    IN UNION {{LessonsOf(topic)[l].id : l \in 1..Len(LessonsOf(topic))} : topic \in under}
       \cup {AbsentId}

\* dispatch(action) from a user interaction.  The continuation of an await whose
\* promise is settled runs before any later user event is handled.
UserDispatch(action) ==
    /\ ~threw
    /\ intents < MaxIntents
    /\ \A i \in 1..Len(ops) : ops[i].handler = "awaiting" => ops[i].promise = "pending"
    /\ \E r \in {curriculumReducer(curriculum, action, nextId)} :
          /\ r.nextId <= MaxIds
          /\ curriculum' = r.tree
          /\ nextId' = r.nextId
          /\ threw' = r.raised
    /\ intents' = intents + 1
    /\ intent' = action
    /\ history' = Append(history, action)
    /\ ops' = [i \in 1..Len(ops) |->
                  IF ops[i].handler = "awaiting"
                      THEN [ops[i] EXCEPT !.intentsInFlight = @ + 1]
                      ELSE ops[i]]
    /\ UNCHANGED <<status, inline, progress, isLoading, snackbar, now, xvars, sse>>

UpdateCurriculumTitle ==
    \E title \in {TitleX} :
        UserDispatch([type |-> "UPDATE_CURRICULUM_TITLE", payload |-> title])

UpdateCurriculumDescription ==
    \E description \in {DescriptionY} :
        UserDispatch([type |-> "UPDATE_CURRICULUM_DESCRIPTION", payload |-> description])

AddModule == \E type \in {"ADD_MODULE"} : UserDispatch([type |-> type])

UpdateModule ==
    \E moduleId \in ModuleIdChoices(curriculum), e \in Edits :
        UserDispatch([type |-> "UPDATE_MODULE",
                      payload |-> [moduleId |-> moduleId, title |-> e.title,
                                   description |-> e.description]])

DeleteModule ==
    \E moduleId \in ModuleIdChoices(curriculum) :
        UserDispatch([type |-> "DELETE_MODULE", payload |-> moduleId])

AddTopic ==
    \E moduleId \in ModuleIdChoices(curriculum) :
        UserDispatch([type |-> "ADD_TOPIC", payload |-> moduleId])

UpdateTopic ==
    \E moduleId \in ModuleIdChoices(curriculum), e \in Edits :
        \E topicId \in TopicIdChoices(curriculum, moduleId) :
            UserDispatch([type |-> "UPDATE_TOPIC",
                          payload |-> [moduleId |-> moduleId, topicId |-> topicId,
                                       title |-> e.title, description |-> e.description]])

DeleteTopic ==
    \E moduleId \in ModuleIdChoices(curriculum) :
        \E topicId \in TopicIdChoices(curriculum, moduleId) :
            UserDispatch([type |-> "DELETE_TOPIC",
                          payload |-> [moduleId |-> moduleId, topicId |-> topicId]])

AddLesson ==
    \E moduleId \in ModuleIdChoices(curriculum) :
        \E topicId \in TopicIdChoices(curriculum, moduleId) :
            UserDispatch([type |-> "ADD_LESSON",
                          payload |-> [moduleId |-> moduleId, topicId |-> topicId]])

UpdateLesson ==
    \E moduleId \in ModuleIdChoices(curriculum), e \in Edits :
        \E topicId \in TopicIdChoices(curriculum, moduleId) :
            \E lessonId \in LessonIdChoices(curriculum, moduleId, topicId) :
                UserDispatch([type |-> "UPDATE_LESSON",
                              payload |-> [moduleId |-> moduleId, topicId |-> topicId,
                                           lessonId |-> lessonId, title |-> e.title,
                                           description |-> e.description]])

DeleteLesson ==
    \E moduleId \in ModuleIdChoices(curriculum) :
        \E topicId \in TopicIdChoices(curriculum, moduleId) :
            \E lessonId \in LessonIdChoices(curriculum, moduleId, topicId) :
                UserDispatch([type |-> "DELETE_LESSON",
                              payload |-> [moduleId |-> moduleId, topicId |-> topicId,
                                           lessonId |-> lessonId]])

Next ==
    \/ StartUpload
    \/ \E i \in 1..Len(ops) :
          ResponseOk(i) \/ ResponseNotOk(i) \/ ReadBlocks(i) \/ ReadDone(i)
          \/ ReadFails(i) \/ Resume(i)
    \/ UpdateCurriculumTitle \/ UpdateCurriculumDescription
    \/ AddModule \/ UpdateModule \/ DeleteModule
    \/ AddTopic \/ UpdateTopic \/ DeleteTopic
    \/ AddLesson \/ UpdateLesson \/ DeleteLesson
    \/ Tick

Spec == InitApp /\ [][Next]_vars

(***************************************************************************)
(* SpecEdits: the editor without uploads.  Create and delete intents from  *)
(* the cards' buttons, applied one after the other to the initial tree     *)
(***************************************************************************)
MaxEdits == 6

\* the (moduleId, topicId) pairs and (moduleId, topicId, lessonId) triples of
\* the entities of a tree
TopicTargets(tree) ==
    {[moduleId |-> IdAt(tree, <<p[1]>>), topicId |-> IdAt(tree, p)]
     : p \in {q \in EntityPaths(tree) : Len(q) = 2}}

LessonTargets(tree) ==
    {[moduleId |-> IdAt(tree, <<p[1]>>), topicId |-> IdAt(tree, <<p[1], p[2]>>),
      lessonId |-> IdAt(tree, p)]
     : p \in {q \in EntityPaths(tree) : Len(q) = 3}}

\* dispatch(action), the reducer run on the provider's state
Dispatch(action) ==
    /\ Len(history) < MaxEdits
    /\ \E r \in {curriculumReducer(curriculum, action, nextId)} :
          /\ curriculum' = r.tree
          /\ nextId' = r.nextId
          /\ threw' = r.raised
    /\ intents' = intents + 1
    /\ intent' = action
    /\ history' = Append(history, action)
    /\ UNCHANGED <<status, inline, progress, isLoading, ops, snackbar, now, xvars, sse>>

\* CurriculumEditor.handleAddModule
handleAddModule == \E type \in {"ADD_MODULE"} : Dispatch([type |-> type])

\* ModuleCard.handleAddTopic / handleDelete
handleAddTopic ==
    \E n \in 1..Len(curriculum.modules) :
        Dispatch([type |-> "ADD_TOPIC", payload |-> curriculum.modules[n].id])

handleDeleteModule ==
    \E n \in 1..Len(curriculum.modules) :
        Dispatch([type |-> "DELETE_MODULE", payload |-> curriculum.modules[n].id])

\* TopicCard.handleAddLesson / handleDelete
handleAddLesson ==
    \E target \in TopicTargets(curriculum) :
        Dispatch([type |-> "ADD_LESSON", payload |-> target])

handleDeleteTopic ==
    \E target \in TopicTargets(curriculum) :
        Dispatch([type |-> "DELETE_TOPIC", payload |-> target])

\* LessonCard.handleDelete
handleDeleteLesson ==
    \E target \in LessonTargets(curriculum) :
        Dispatch([type |-> "DELETE_LESSON", payload |-> target])

NextEdits ==
    \/ handleAddModule \/ handleDeleteModule
    \/ handleAddTopic \/ handleDeleteTopic
    \/ handleAddLesson \/ handleDeleteLesson

SpecEdits == InitApp /\ [][NextEdits]_vars

(***************************************************************************)
(* SpecProgress: estimateProgress applied to texts made of a few pieces     *)
(***************************************************************************)
MaxPieces == 4

Hundred(c) == [n \in 1..100 |-> c]

\* "modules":[   "modules" : {   a hundred {   a hundred }   }
Pieces ==
    {ModulesHead,
     Quoted(W_modules) \o <<SP, CO, SP, LB>>,
     Hundred(LB),
     Hundred(RB),
     <<RB>>}

RECURSIVE TextsOf(_)
TextsOf(n) ==
    IF n = 0 THEN {<<>>}
    ELSE LET shorter == TextsOf(n - 1)
         IN shorter \cup {text \o piece : text \in shorter, piece \in Pieces}

InitProgress ==
    /\ doc \in TextsOf(MaxPieces)
    /\ progress = NotEstimated
    /\ inline = NoInlineEdit
    /\ status = NoStatus
    /\ cuts = {}
    /\ closure = InitialClosure
    /\ lastModules = <<>>
    /\ extracted = <<>>
    /\ sse = InitialSSE
    /\ now = StartTime
    /\ curriculum = initialCurriculum
    /\ isLoading = FALSE
    /\ nextId = 1
    /\ threw = FALSE
    /\ ops = <<>>
    /\ intents = 0
    /\ intent = NoIntent
    /\ history = <<>>
    /\ snackbar = InitialSnackbar

Estimate ==
    /\ ~progress.estimated
    /\ progress' = estimateProgress(doc)
    /\ UNCHANGED <<status, inline, xvars, sse, avars, now>>

NextProgress == Estimate

SpecProgress == InitProgress /\ [][NextProgress]_vars

(***************************************************************************)
(* SpecSSE: the read loop's framing, fed a response body in reads cut at    *)
(* arbitrary places                                                        *)
(***************************************************************************)
\* :k
\*
\* event:progress
\* data:{"status":"s"}
\*
\*
\* data: {"chunk":"x"}
\* event: chunk
\*
\* event: chunk
\* data: {bad
\*
\* event: error
\* data: {"code":"E"}
\*
\* data: {}
FramedBody ==
    <<CO, "k", NL, NL>>
    \o W_event \o <<CO>> \o W_progress \o <<NL>>
    \o W_data \o <<CO>> \o Obj(KV(W_status, Quoted(<<"s">>))) \o <<NL, NL, NL>>
    \o W_data \o <<CO, SP>> \o Obj(KV(W_chunk, Quoted(<<"x">>))) \o <<NL>>
    \o W_event \o <<CO, SP>> \o W_chunk \o <<NL, NL>>
    \o W_event \o <<CO, SP>> \o W_chunk \o <<NL>>
    \o W_data \o <<CO, SP, LB, "b", "a", "d", NL, NL>>
    \o SSEBlock(W_error, Obj(KV(W_code, Quoted(<<"E">>))))
    \o W_data \o <<CO, SP, LB, RB>>

InitSSE ==
    /\ doc = FramedBody
    /\ cuts = 1..Len(FramedBody)
    /\ sse = InitialSSE
    /\ closure = InitialClosure
    /\ lastModules = <<>>
    /\ extracted = <<>>
    /\ now = StartTime
    /\ curriculum = initialCurriculum
    /\ isLoading = FALSE
    /\ nextId = 1
    /\ threw = FALSE
    /\ ops = <<>>
    /\ intents = 0
    /\ intent = NoIntent
    /\ history = <<>>
    /\ snackbar = InitialSnackbar
    /\ progress = NotEstimated
    /\ inline = NoInlineEdit
    /\ status = NoStatus

\* one iteration of the read loop, for a read that ends at position n of the body
ReadValue ==
    \E n \in cuts :
        /\ n > sse.fed
        /\ \E r \in {ProcessRead(sse.buffer, SubSeq(doc, sse.fed + 1, n))} :
              sse' = [buffer |-> r.buffer,
                      events |-> sse.events \o r.events,
                      fed |-> n,
                      cutInLine |-> \/ sse.cutInLine
                                    \/ n < Len(doc) /\ doc[n] # NL /\ doc[n + 1] # NL,
                      cutInTerminator |-> \/ sse.cutInTerminator
                                          \/ /\ 1 < n /\ n < Len(doc)
                                             /\ doc[n - 1] # NL
                                             /\ doc[n] = NL /\ doc[n + 1] = NL]
        /\ UNCHANGED <<status, inline, progress, doc, cuts, closure, lastModules, extracted, now, avars>>

NextSSE == ReadValue

SpecSSE == InitSSE /\ [][NextSSE]_vars

(***************************************************************************)
(* SpecInline: InlineEdit.tsx.  One InlineEdit under a parent that stores   *)
(* what onSave hands it and passes it back as the value prop                *)
(***************************************************************************)
MaxSaves == 2

\* placeholder = 'Click to add text...'
Placeholder == <<"Click to add text...">>

\* const displayValue = value || placeholder
DisplayValue(value) == IF value = <<>> THEN Placeholder ELSE value

\* the value the component is mounted with, and what the user may type
Values == {<<>>, <<"a">>, <<SP, "a">>, <<"a", SP>>, <<"a", SP, "b">>}
TypedTexts == {<<>>, <<SP>>, <<"a">>, <<"a", SP>>, <<"b">>}

\* the component after its first render and its effects
Mounted(value, multiline) ==
    [mounted |-> TRUE,
     value |-> value,                      \* the value prop
     multiline |-> multiline,              \* the multiline prop
     isEditing |-> FALSE,                  \* useState(false)
     textContent |-> DisplayValue(value),  \* editableRef.current.textContent
     originalValue |-> value,              \* originalValueRef.current
     saved |-> <<>>,                       \* the arguments of the onSave calls
     changed |-> FALSE,                    \* the user typed since the click
     last |-> "mount"]                     \* the latest event handled

InitInline ==
    /\ inline \in {Mounted(value, multiline) : value \in Values, multiline \in BOOLEAN}
    /\ status = NoStatus
    /\ progress = NotEstimated
    /\ curriculum = initialCurriculum
    /\ isLoading = FALSE
    /\ nextId = 1
    /\ threw = FALSE
    /\ ops = <<>>
    /\ intents = 0
    /\ intent = NoIntent
    /\ history = <<>>
    /\ snackbar = InitialSnackbar
    /\ now = StartTime
    /\ doc = <<>>
    /\ cuts = {}
    /\ closure = InitialClosure
    /\ lastModules = <<>>
    /\ extracted = <<>>
    /\ sse = InitialSSE

\* handleBlur, and the render that follows it: the parent stores the saved value,
\* the effect copies the new value prop into originalValueRef, and the text node
\* is rewritten when displayValue has changed
AfterBlur(c) ==
    LET newValue == Trim(c.textContent)
    IN IF newValue # c.originalValue
           THEN [c EXCEPT !.isEditing = FALSE,
                          !.saved = Append(@, newValue),
                          !.value = newValue,
                          !.originalValue = newValue,
                          !.textContent = IF DisplayValue(newValue) # DisplayValue(c.value)
                                              THEN DisplayValue(newValue) ELSE @]
           ELSE [c EXCEPT !.isEditing = FALSE]

handleClick ==
    /\ ~inline.isEditing
    /\ Len(inline.saved) < MaxSaves
    /\ inline' = [inline EXCEPT !.isEditing = TRUE, !.changed = FALSE, !.last = "click"]
    /\ UNCHANGED <<status, progress, xvars, sse, avars, now>>

\* the user replaces the text of the contentEditable element
Input ==
    /\ inline.isEditing
    /\ \E text \in TypedTexts :
          /\ text # inline.textContent
          /\ inline' = [inline EXCEPT !.textContent = text, !.changed = TRUE,
                                      !.last = "input"]
    /\ UNCHANGED <<status, progress, xvars, sse, avars, now>>

handleBlur ==
    /\ inline.isEditing
    /\ inline' = [AfterBlur(inline) EXCEPT !.last = "blur"]
    /\ UNCHANGED <<status, progress, xvars, sse, avars, now>>

\* Enter without Shift in a single-line field blurs the element; Escape puts the
\* original value back and leaves edit mode
handleKeyDown ==
    /\ inline.isEditing
    /\ \E key \in {"Enter", "Escape"} :
          /\ key = "Enter" => ~inline.multiline
          /\ inline' = IF key = "Enter"
                           THEN [AfterBlur(inline) EXCEPT !.last = "blur"]
                           ELSE [inline EXCEPT !.textContent = inline.originalValue,
                                               !.isEditing = FALSE,
                                               !.last = "Escape"]
    /\ UNCHANGED <<status, progress, xvars, sse, avars, now>>

NextInline == handleClick \/ Input \/ handleBlur \/ handleKeyDown

SpecInline == InitInline /\ [][NextInline]_vars

(***************************************************************************)
(* Claims about the extractor                                              *)
(***************************************************************************)
\* the elements of the modules array of a complete document
ModulesOf(text) ==
    LET v == Get(JSONParse(text).val, W_modules)
    IN IF v.k = "arr" THEN v.items ELSE <<>>

\* module m is the array element v, but for an id added by the extractor
SameModule(m, v) ==
    IF Falsy(Get(v, W_id))
        THEN [m EXCEPT !.id = Undefined] = [ToModule(v) EXCEPT !.id = Undefined]
        ELSE m = ToModule(v)

ExtractedIsModulesOf(text) ==
    LET ref == ModulesOf(text)
    IN /\ Len(extracted) = Len(ref)
       /\ \A n \in 1..Len(ref) : SameModule(extracted[n], ref[n])

\* C1: once the whole of a valid document has been fed, in pieces cut anywhere,
\* the modules returned over all calls, in call order, are exactly the elements
\* of the document's modules array.
C1_ExtractedEqualsModulesArray ==
    (closure.accumulatedText = doc /\ JSONParse(doc).ok) => ExtractedIsModulesOf(doc)

TitleM1 == <<"M", "1">>

FirstRoundTripCall ==
    /\ doc = DocRoundTrip
    /\ closure.accumulatedText = <<>>
    /\ closure'.accumulatedText = RoundTripText

SecondRoundTripCall ==
    /\ doc = DocRoundTrip
    /\ closure.accumulatedText = RoundTripText
    /\ closure'.accumulatedText = DocRoundTrip

\* C7 (as claimed): on {"modules":[{"title":"M1","description":"d1","topics":[]}
\* the first call returns no module; after }]} is appended the next call, with
\* the threaded state, returns exactly one module, titled M1.
C7_RoundTripAsClaimed ==
    [][/\ FirstRoundTripCall => lastModules' = <<>>
       /\ SecondRoundTripCall =>
              Len(lastModules') = 1 /\ lastModules'[1].title = TitleM1]_vars

\* C7 (amended): the text already holds the whole module, so the first call
\* returns exactly one module, titled M1, and the call after }]} is appended
\* returns none.
C7_RoundTripAmended ==
    [][/\ FirstRoundTripCall =>
              Len(lastModules') = 1 /\ lastModules'[1].title = TitleM1
       /\ SecondRoundTripCall => lastModules' = <<>>]_vars

\* both calls of the scenario have been made
C7_Witness ==
    /\ doc = DocRoundTrip
    /\ closure.accumulatedText = DocRoundTrip
    /\ closure.parseState.lastParsedIndex = Len(RoundTripText) - Len(ModulesHead)
    /\ Len(extracted) = 1
    /\ lastModules = <<>>

\* C12: the lastParsedIndex of the state a call returns is never smaller than
\* the lastParsedIndex of the state the call was given, the buffer growing from
\* call to call.
C12_LastParsedIndexMonotone ==
    [][closure'.parseState.lastParsedIndex >= closure.parseState.lastParsedIndex]_vars

\* the two modules of a document were returned, and a later call, which
\* returned none, left the index at the end of the second module
C12_Witness ==
    /\ doc = DocTwo
    /\ closure.accumulatedText = doc
    /\ Len(extracted) = 2
    /\ lastModules = <<>>
    /\ extracted[2].id = <<"b">>
    /\ closure.parseState.lastParsedIndex = Len(ModuleA \o <<CM>> \o ModuleB)

\* the text holds "modules", optional spaces, a colon, optional spaces and "["
HasModulesArray(text) == \E i \in 1..Len(text) : ModulesMatchAt(text, i) # 0

\* C17: estimateProgress returns a number between 0 and 95, and 0 for the empty
\* text and for every text without a modules array, whatever its braces.
C17_ProgressInRange ==
    progress.estimated =>
        /\ 0 <= progress.num
        /\ progress.num <= 95 * progress.den
        /\ (doc = <<>> \/ ~HasModulesArray(doc)) => progress.num = 0

\* the estimator was applied to a text without a modules array that has closing
\* braces and no opening brace at all
C17_Witness ==
    /\ progress.estimated
    /\ ~HasModulesArray(doc)
    /\ CountOf(doc, RB) > 100
    /\ CountOf(doc, LB) = 0
    /\ progress.num = 0

(***************************************************************************)
(* Claims about the editor                                                 *)
(***************************************************************************)
\* the step is a user intent / the start of an upload / the replacement that
\* ends handleUpload after a complete event
UserStep == intents' # intents
UploadStartStep == Len(ops') # Len(ops)
CompletionStep ==
    \E i \in 1..Len(ops) :
        /\ ops[i].handler = "awaiting"
        /\ ops[i].promise = "resolved"
        /\ ops'[i].handler = "finished"

\* C2: once a complete event was received and handleUpload has finished, the
\* tree is the complete event's curriculum: the finishing step installs it, and
\* after it no step but a user intent or a new upload changes the tree.
C2_TreeIsCompletePayload ==
    [][\A i \in 1..Len(ops) :
          (/\ Len(ops') = Len(ops)
           /\ ~UserStep
           /\ ops'[i].handler = "finished"
           /\ ops'[i].promise = "resolved"
           /\ (ops[i].handler = "awaiting" \/ curriculum = ops[i].result.curriculum))
          => curriculum' = ops'[i].result.curriculum]_vars

IsTempId(id) == Len(id) = 8 /\ SubSeq(id, 1, 5) = <<"t", "e", "m", "p", "-">>
IsGeneratedId(id) == Len(id) = 6 /\ SubSeq(id, 1, 5) = <<"u", "u", "i", "d", "-">>

\* a module appended by the stream that carries a user's edit: a typed title or
\* description, or a topic the user created
EditedStreamedModule(module) ==
    /\ IsTempId(module.id)
    /\ \/ module.title = TitleX
       \/ module.description = DescriptionY
       \/ /\ module.topics # UndefinedList
          /\ \E t \in 1..Len(module.topics) :
                \/ IsGeneratedId(module.topics[t].id)
                \/ module.topics[t].title = TitleX
                \/ module.topics[t].description = DescriptionY

EditInTree ==
    \E n \in 1..Len(curriculum.modules) : EditedStreamedModule(curriculum.modules[n])

ModulesKept ==
    /\ Len(curriculum'.modules) >= Len(curriculum.modules)
    /\ SubSeq(curriculum'.modules, 1, Len(curriculum.modules)) = curriculum.modules

\* C3 (as claimed): while an edited streamed module is in the tree, only a user
\* intent or the start of a new upload changes or removes a module of the tree.
C3_EditNeverLost ==
    [][(EditInTree /\ ~UserStep /\ ~UploadStartStep) => ModulesKept]_vars

\* C3 (amended): while an edited streamed module is in the tree, only a user
\* intent, the start of a new upload, or the replacement of the tree by the
\* complete event's curriculum changes or removes a module of the tree; the
\* appends of the stream and its end by an error leave every module in place.
C3_EditKeptUntilReplaced ==
    [][(EditInTree /\ ~UserStep /\ ~UploadStartStep /\ ~CompletionStep) => ModulesKept]_vars

\* an edit made while the stream was in flight is in the tree, after a module was
\* streamed behind it and the stream has ended by an error
C3_Witness ==
    /\ Len(ops) = 1
    /\ ops[1].intentsInFlight = 1
    /\ ops[1].promise = "rejected"
    /\ ops[1].handler = "finished"
    /\ Len(curriculum.modules) = 2
    /\ EditedStreamedModule(curriculum.modules[1])

\* C4: once a complete or an error message has been processed, no later message
\* of the body reaches the progress or chunk callback and no module is appended.
C4_NothingAfterSettled ==
    \A i \in 1..Len(ops) : ~ops[i].lateCallback /\ ~ops[i].lateAppend

\* C5: when the reader has reported done, the operation is completed or errored
\* (and so handleUpload goes on to set isLoading to false).
C5_BodyEndIsTerminal ==
    \A i \in 1..Len(ops) : ops[i].phase = "returned" => ops[i].promise # "pending"

\* response.body.getReader() was called and read() has neither reported done
\* nor failed: the code never calls reader.cancel() or reader.releaseLock()
ReaderOpen(op) == op.phase = "streaming"

\* C13: once the operation is terminal (handleUpload has run its finally block)
\* its reader is not open any more.
C13_ReaderClosedWhenTerminal ==
    \A i \in 1..Len(ops) : ops[i].handler = "finished" => ~ReaderOpen(ops[i])

\* the code and the message of the error block the bodies carry
SentError == [message |-> <<"e">>, code |-> <<"E">>]

\* the first of the complete and error events the switch has handled is an
\* error event
FailedByErrorMessage(op) ==
    \E n \in 1..Len(op.dispatched) :
        /\ op.dispatched[n] = W_error
        /\ \A m \in 1..(n - 1) : op.dispatched[m] # W_complete

BlockType(block) ==
    IF block = MalformedBlock THEN Null
    ELSE IF block = ProgressBlock THEN W_progress
    ELSE IF block = CompleteBlock THEN W_complete
    ELSE IF block = ErrorBlock THEN W_error
    ELSE W_chunk

WellFormedTypes(blocks) ==
    LET types == [n \in 1..Len(blocks) |-> BlockType(blocks[n])]
    IN SelectSeq(types, LAMBDA t : t # Null)

\* C15: a block whose data cannot be decoded reaches no callback and settles
\* nothing, and the well-formed blocks around it are all handled, in order: the
\* events handled are those of the well-formed blocks read so far, and the
\* promise is pending as long as none of them is a complete or an error event.
C15_MalformedBlockSkipped ==
    \A i \in 1..Len(ops) :
        /\ ops[i].dispatched = WellFormedTypes(SubSeq(ops[i].body, 1, ops[i].pos))
        /\ (/\ ops[i].phase \in {"streaming", "returned"}
            /\ \A n \in 1..Len(ops[i].dispatched) :
                  ops[i].dispatched[n] \notin {W_complete, W_error})
               => ops[i].promise = "pending"

\* the body with the undecodable block was read to its end: both modules around
\* the block were appended and the complete event resolved the promise
C15_Witness ==
    /\ Len(ops) = 1
    /\ ops[1].body = BodyMalformed
    /\ ops[1].pos = Len(BodyMalformed)
    /\ ops[1].dispatched = <<W_chunk, W_chunk, W_complete>>
    /\ Len(ops[1].closure.parseState.completeModules) = 2
    /\ ops[1].promise = "resolved"

\* handleUpload resumes after the promise was rejected
FailureStep(i) ==
    /\ ops[i].handler = "awaiting"
    /\ ops[i].promise = "rejected"
    /\ ops'[i].handler = "finished"

\* C16: when the operation fails, handleUpload leaves the tree as it is, shows
\* the error's message and sets isLoading to false; the tree keeps the modules
\* appended before the failure: from the failure on, only a user intent or a new
\* upload changes it.
C16_FailureKeepsStreamedModules ==
    [][\A i \in 1..Len(ops) :
          /\ (Len(ops') = Len(ops) /\ FailureStep(i)) =>
                 /\ curriculum' = curriculum
                 /\ ~isLoading'
                 /\ snackbar' = [open |-> TRUE, message |-> ops[i].result.message,
                                 severity |-> "error"]
          /\ (/\ ops[i].promise = "rejected"
              /\ ~UserStep
              /\ ~UploadStartStep) => curriculum' = curriculum]_vars

RECURSIVE IsSubsequence(_, _)
IsSubsequence(a, b) ==
    IF a = <<>> THEN TRUE
    ELSE IF b = <<>> THEN FALSE
    ELSE IF Head(a) = Head(b) THEN IsSubsequence(Tail(a), Tail(b))
    ELSE IsSubsequence(a, Tail(b))

Ids(entities) == [n \in 1..Len(entities) |-> entities[n].id]

\* a child sequence after a step: when no child went, the children it had are
\* where they were and the new ones follow them; when children went, the rest
\* are as they were, in their order
ChildrenKept(old, new) ==
    IF Len(new) >= Len(old)
        THEN Ids(SubSeq(new, 1, Len(old))) = Ids(old)
        ELSE IsSubsequence(new, old)

OrderKept(old, new) ==
    /\ ChildrenKept(old.modules, new.modules)
    /\ Len(new.modules) >= Len(old.modules) =>
          \A n \in 1..Len(old.modules) :
              /\ ChildrenKept(TopicsOf(old, n), TopicsOf(new, n))
              /\ Len(TopicsOf(new, n)) >= Len(TopicsOf(old, n)) =>
                    \A t \in 1..Len(TopicsOf(old, n)) :
                        ChildrenKept(LessonsOf(TopicsOf(old, n)[t]),
                                     LessonsOf(TopicsOf(new, n)[t]))

\* the modules a chunk callback extracts in a step are put after the modules of
\* the tree, in the order the extractor returned them
StreamedAppendedInOrder ==
    \A i \in 1..Len(ops) :
        LET before == ops[i].closure.parseState.completeModules
            after == ops'[i].closure.parseState.completeModules
        IN (Len(ops') = Len(ops) /\ after # before) =>
               curriculum'.modules
                   = curriculum.modules \o SubSeq(after, Len(before) + 1, Len(after))

MatchingPaths(tree, a) ==
    {p \in EntityPaths(tree) :
        CASE a.type = "UPDATE_MODULE" ->
                 Len(p) = 1 /\ IdAt(tree, p) = a.payload.moduleId
          [] a.type = "UPDATE_TOPIC" ->
                 /\ Len(p) = 2
                 /\ IdAt(tree, <<p[1]>>) = a.payload.moduleId
                 /\ IdAt(tree, p) = a.payload.topicId
          [] a.type = "UPDATE_LESSON" ->
                 /\ Len(p) = 3
                 /\ IdAt(tree, <<p[1]>>) = a.payload.moduleId
                 /\ IdAt(tree, <<p[1], p[2]>>) = a.payload.topicId
                 /\ IdAt(tree, p) = a.payload.lessonId
          [] OTHER -> FALSE}

\* the entity with the fields the payload provides, the rest as it was
Edited(entity, payload) ==
    [entity EXCEPT !.title = IF payload.title = Undefined THEN @ ELSE payload.title,
                   !.description = IF payload.description = Undefined
                                       THEN @ ELSE payload.description]

\* the tree with the one entity at this path edited
EditedAt(tree, path, payload) ==
    IF Len(path) = 1
        THEN [tree EXCEPT !.modules[path[1]] = Edited(@, payload)]
    ELSE IF Len(path) = 2
        THEN [tree EXCEPT !.modules[path[1]].topics[path[2]] = Edited(@, payload)]
    ELSE [tree EXCEPT !.modules[path[1]].topics[path[2]].lessons[path[3]] =
                          Edited(@, payload)]

UpdateStep ==
    /\ UserStep
    /\ intent'.type \in {"UPDATE_MODULE", "UPDATE_TOPIC", "UPDATE_LESSON"}

\* C19: an update intent that names an entity of the tree changes the fields its
\* payload provides in one entity that matches; that entity's other field, its
\* identifier and its children, and all the other entities, stay as they are.
C19_UpdateChangesOneEntity ==
    [][(UpdateStep /\ MatchingPaths(curriculum, intent') # {})
           => \E p \in MatchingPaths(curriculum, intent') :
                  curriculum' = EditedAt(curriculum, p, intent'.payload)]_vars

\* C20: the start of an upload replaces the tree, before anything is streamed,
\* by a root with empty title and description, no modules and a generated
\* identifier that differs from the previous root's; as long as the upload has
\* streamed nothing, and also when its request fails, no step of it changes that
\* tree, so nothing of the tree before the upload comes back.
C20_UploadResetsTree ==
    [][/\ UploadStartStep =>
              /\ curriculum'.title = <<>>
              /\ curriculum'.description = <<>>
              /\ curriculum'.modules = <<>>
              /\ IsGeneratedId(curriculum'.id)
              /\ curriculum'.id # curriculum.id
              /\ ops'[Len(ops')].dispatched = <<>>
       /\ \A i \in 1..Len(ops) :
              (/\ Len(ops') = Len(ops)
               /\ ops'[i] # ops[i]
               /\ ops'[i].dispatched = <<>>
               /\ ~UserStep) => curriculum' = curriculum]_vars

\* an upload was started on a tree that held a module the user had created, its
\* request has failed, and the tree is the empty root the upload installed
C20_Witness ==
    /\ Len(ops) = 1
    /\ Len(history) = 1
    /\ history[1].type = "ADD_MODULE"
    /\ ops[1].intentsInFlight = 0
    /\ ops[1].promise = "rejected"
    /\ ops[1].result.code = <<"HTTP_ERROR">>
    /\ ops[1].handler = "finished"
    /\ curriculum.modules = <<>>
    /\ curriculum.id = generateId(2)

\* C8: no two entities of the tree carry the same identifier.
C8_IdentifiersUnique ==
    \A p, q \in EntityPaths(curriculum) :
        p # q => IdAt(curriculum, p) # IdAt(curriculum, q)

\* the intent names no entity of the tree: its own identifier or one of its
\* ancestors' is absent
TargetAbsent(tree, a) ==
    LET paths == EntityPaths(tree)
    IN CASE a.type \in {"UPDATE_MODULE"} ->
               \A p \in paths : Len(p) = 1 => IdAt(tree, p) # a.payload.moduleId
         [] a.type \in {"DELETE_MODULE", "ADD_TOPIC"} ->
               \A p \in paths : Len(p) = 1 => IdAt(tree, p) # a.payload
         [] a.type \in {"UPDATE_TOPIC", "DELETE_TOPIC", "ADD_LESSON"} ->
               \A p \in paths : Len(p) = 2 =>
                   \/ IdAt(tree, <<p[1]>>) # a.payload.moduleId
                   \/ IdAt(tree, p) # a.payload.topicId
         [] a.type \in {"UPDATE_LESSON", "DELETE_LESSON"} ->
               \A p \in paths : Len(p) = 3 =>
                   \/ IdAt(tree, <<p[1]>>) # a.payload.moduleId
                   \/ IdAt(tree, <<p[1], p[2]>>) # a.payload.topicId
                   \/ IdAt(tree, p) # a.payload.lessonId
         [] OTHER -> FALSE

\* C9: an intent whose target, or an ancestor of it, is absent from the tree
\* returns the tree it was given and raises no error.
C9_AbsentTargetIsNoOp ==
    [][(UserStep /\ TargetAbsent(curriculum, intent'))
           => (~threw' /\ curriculum' = curriculum)]_vars

RemoveAt(entities, n) == SubSeq(entities, 1, n - 1) \o SubSeq(entities, n + 1, Len(entities))

\* C10: DELETE_MODULE with an identifier of the tree removes exactly one module,
\* one that carries the identifier; the others stay as they are, in their order.
C10_DeleteRemovesOneModule ==
    [][(/\ UserStep
        /\ intent'.type = "DELETE_MODULE"
        /\ ModulesWithId(curriculum, intent'.payload) # {})
           => \E n \in ModulesWithId(curriculum, intent'.payload) :
                  curriculum'.modules = RemoveAt(curriculum.modules, n)]_vars

(***************************************************************************)
(* Claims about the default titles                                         *)
(***************************************************************************)
\* the three latest intents are ADD_MODULE
ThreeModulesAdded ==
    /\ Len(history) >= 3
    /\ \A n \in (Len(history) - 2)..Len(history) : history[n].type = "ADD_MODULE"

\* the titles of the three last modules are Module k+1, Module k+2, Module k+3
LastThreeTitledFrom(k) ==
    /\ Len(curriculum.modules) >= 3
    /\ \A n \in 1..3 :
          curriculum.modules[Len(curriculum.modules) - 3 + n].title
              = DefaultTitle(W_Module, k + n)

\* C11 (as claimed): three ADD_MODULE intents in sequence create modules titled
\* Module 1, Module 2, Module 3, in this order, whatever create and delete
\* intents were applied before.
C11_TitlesOneTwoThree == ThreeModulesAdded => LastThreeTitledFrom(0)

\* C11 (amended): three ADD_MODULE intents in sequence, applied to a tree of k
\* modules, append modules titled Module k+1, Module k+2, Module k+3, in this
\* order, whatever create and delete intents were applied before.
C11_TitlesCountFromLength ==
    ThreeModulesAdded => LastThreeTitledFrom(Len(curriculum.modules) - 3)

\* three modules were added in sequence to a tree that held one module, after
\* another module was deleted
C11_Witness ==
    /\ ThreeModulesAdded
    /\ Len(curriculum.modules) = 4
    /\ \E n \in 1..Len(history) : history[n].type = "DELETE_MODULE"

(***************************************************************************)
(* Claims about the framing                                                *)
(***************************************************************************)
\* C6: whatever the reads the body came in, the events dispatched once the whole
\* body was read are those of the body read in a single read, in the same order.
C6_FramingIndependentOfReads ==
    sse.fed = Len(doc) => sse.events = ProcessRead(<<>>, doc).events

\* the body was read to its end in reads of which one ended inside a line and one
\* between the two newlines of a block's end, and its events were dispatched
C6_Witness ==
    /\ doc = FramedBody
    /\ sse.fed = Len(doc)
    /\ sse.cutInLine
    /\ sse.cutInTerminator
    /\ Len(sse.events) = 3

(***************************************************************************)
(* Claims about the fields of the entities                                 *)
(***************************************************************************)
\* the curriculum, module, topic or lesson at a path
EntityAt(tree, path) ==
    IF Len(path) = 0 THEN tree
    ELSE IF Len(path) = 1 THEN tree.modules[path[1]]
    ELSE IF Len(path) = 2 THEN tree.modules[path[1]].topics[path[2]]
    ELSE tree.modules[path[1]].topics[path[2]].lessons[path[3]]

FieldsPresent(tree) ==
    \A p \in EntityPaths(tree) :
        /\ EntityAt(tree, p).title # Undefined
        /\ EntityAt(tree, p).description # Undefined

\* C21: every curriculum, module, topic and lesson of the tree has a title and a
\* description that are present (never undefined), also the modules appended
\* from the stream and the tree installed by the complete event.
C21_FieldsPresent == FieldsPresent(curriculum)

(***************************************************************************)
(* Claims about InlineEdit                                                 *)
(***************************************************************************)
\* C22: leaving edit mode by blur without having changed the text never calls
\* onSave, whatever the value (empty, or with leading or trailing whitespace);
\* onSave is called only when the user changed the text.
C22_UnchangedBlurNeverSaves ==
    [][/\ (inline.isEditing /\ ~inline.changed /\ inline'.last = "blur")
              => inline'.saved = inline.saved
       /\ inline'.saved # inline.saved => inline.changed]_vars

(***************************************************************************)
(* Claims about the extractor's scan                                       *)
(***************************************************************************)
\* a key of the root object other than modules has an object as its value
ObjectBesideArray(text) ==
    LET root == JSONParse(text).val
    IN /\ root.k = "obj"
       /\ \E n \in 1..Len(root.keys) : root.keys[n] # W_modules /\ root.items[n].k = "obj"

ExtractedIsPrefixOf(text) ==
    LET ref == ModulesOf(text)
    IN /\ Len(extracted) <= Len(ref)
       /\ \A n \in 1..Len(extracted) : SameModule(extracted[n], ref[n])

\* C23: on a valid document whose root holds no object but the modules, cut
\* anywhere, the modules returned so far are always the first elements of the
\* modules array, whole: a brace inside a string value (next to escaped quotes
\* and backslashes) ends no module, and a nested topic or lesson object is part
\* of its module and is never returned on its own; once the whole text was fed
\* all the elements have been returned.
C23_BracesCountedOutsideStrings ==
    (JSONParse(doc).ok /\ ~ObjectBesideArray(doc)) =>
        /\ ExtractedIsPrefixOf(doc)
        /\ closure.accumulatedText = doc => Len(extracted) = Len(ModulesOf(doc))

\* the module whose title is }"\ and whose topic holds a lesson was returned
\* whole by one call, and the module that follows it by a later call
C23_Witness ==
    /\ doc = DocNested
    /\ closure.accumulatedText = doc
    /\ Len(extracted) = 2
    /\ Len(lastModules) = 1
    /\ extracted[1].title = <<RB, Q, BS>>
    /\ extracted[1].topics[1].lessons[1].id = <<"l">>
    /\ extracted[2].title = <<"A">>

\* the index, in the text after the "[", of the candidate that fails to parse
BadCandidateStart == Len(ModuleA \o <<CM>>)

\* C24: on a text with a candidate object that fails to parse, cut anywhere,
\* every call returns a result: the module before the candidate is returned as
\* soon as it is complete, also by the call that meets the candidate; the scan
\* stops at the candidate, so the module after it is never returned; and
\* lastParsedIndex stays at or before the candidate's start, so that the next
\* call scans the candidate again.
C24_ParseFailureStopsScan ==
    doc = DocBad =>
        /\ closure.parseState.lastParsedIndex <= BadCandidateStart
        /\ Len(extracted) <= 1
        /\ Len(closure.accumulatedText) >= Len(ModulesHead \o ModuleA) =>
              /\ Len(extracted) = 1
              /\ extracted[1].title = <<"A">>
              /\ closure.parseState.lastParsedIndex = Len(ModuleA)

\* one call met the module and the failing candidate behind it and returned the
\* module; a later call scanned the candidate again and returned nothing
C24_Witness ==
    /\ doc = DocBad
    /\ closure.accumulatedText = doc
    /\ Len(extracted) = 1
    /\ lastModules = <<>>
    /\ closure.parseState.lastParsedIndex = Len(ModuleA)
    /\ closure.parseState.completeModules = extracted

\* C25: on a valid document, cut anywhere, every module returned is an element
\* of the modules array: the modules returned so far are the array's first
\* elements, and an object that follows the array's closing bracket is never
\* returned.
C25_OnlyArrayElements == JSONParse(doc).ok => ExtractedIsPrefixOf(doc)

(***************************************************************************)
(* Claims about messages that arrive late                                  *)
(***************************************************************************)
\* C26: once handleUpload has finished for an operation (the operation is
\* settled and its finally block has set isLoading to false), no message still
\* arriving on that operation's response body changes the tree, whether or not
\* a later upload has been started.
C26_NoAppendAfterFinished ==
    [][\A i \in 1..Len(ops) :
          (/\ Len(ops') = Len(ops)
           /\ ops[i].handler = "finished"
           /\ ops'[i] # ops[i]) => curriculum' = curriculum]_vars

(***************************************************************************)
(* Claims about the temporary identifiers                                  *)
(***************************************************************************)
\* C27: the modules that got a temporary identifier from the extractor during
\* one stream carry pairwise different identifiers, whichever calls returned
\* them; a module that arrives with an identifier keeps it.
C27_TempIdsDistinct ==
    /\ \A a, b \in 1..Len(extracted) :
          (a # b /\ IsTempId(extracted[a].id) /\ IsTempId(extracted[b].id))
              => extracted[a].id # extracted[b].id
    /\ (doc = DocTwo /\ Len(extracted) = 2) => extracted[2].id = <<"b">>

(***************************************************************************)
(* Claims about the status updates                                         *)
(***************************************************************************)
\* the step is a call of the chunk callback / a call of setStreamingStatus / a
\* call of the chunk callback that completes at least one module
ChunkStep == closure'.accumulatedText # closure.accumulatedText
StatusStep == status'.count # status.count
CompletingStep == ChunkStep /\ lastModules' # <<>>

CreatedBehind(old, new, word, childField) ==
    /\ Len(new) = Len(old) + 1
    /\ SubSeq(new, 1, Len(old)) = old
    /\ new[Len(new)].title = DefaultTitle(word, Len(old) + 1)
    /\ new[Len(new)].description = <<>>
    /\ childField # "none" => new[Len(new)][childField] = <<>>

\* an entity that is in the tree before and after the step has the title it had
TitlesKept(old, new) ==
    \A p \in EntityPaths(old), q \in EntityPaths(new) :
        (Len(p) = Len(q) /\ IdAt(old, p) = IdAt(new, q))
            => EntityAt(new, q).title = EntityAt(old, p).title

\* C29: a created module, topic or lesson is put behind the children its parent
\* has, titled Module n, Topic n or Lesson n with n one more than the number of
\* those children, with an empty description and no children; no create or
\* delete intent changes the title of an entity that was in the tree.
C29_PositionalTitles ==
    [][history' # history =>
          LET a == history'[Len(history')]
          IN /\ a.type = "ADD_MODULE" =>
                   CreatedBehind(curriculum.modules, curriculum'.modules, W_Module, "topics")
             /\ a.type = "ADD_TOPIC" =>
                   \A n \in ModulesWithId(curriculum, a.payload) :
                       CreatedBehind(curriculum.modules[n].topics,
                                     curriculum'.modules[n].topics, W_Topic, "lessons")
             /\ a.type = "ADD_LESSON" =>
                   \A n \in ModulesWithId(curriculum, a.payload.moduleId) :
                       \A t \in 1..Len(curriculum.modules[n].topics) :
                           curriculum.modules[n].topics[t].id = a.payload.topicId =>
                               CreatedBehind(curriculum.modules[n].topics[t].lessons,
                                             curriculum'.modules[n].topics[t].lessons,
                                             W_Lesson, "none")
             /\ TitlesKept(curriculum, curriculum')]_vars

\* Module 1 was deleted after Module 2 had got a topic and the topic a lesson:
\* the module that stays is still titled Module 2
C29_Witness ==
    /\ Len(history) = 5
    /\ history[5].type = "DELETE_MODULE"
    /\ Len(curriculum.modules) = 1
    /\ curriculum.modules[1].title = DefaultTitle(W_Module, 2)
    /\ Len(curriculum.modules[1].topics) = 1
    /\ curriculum.modules[1].topics[1].title = DefaultTitle(W_Topic, 1)
    /\ Len(curriculum.modules[1].topics[1].lessons) = 1
    /\ curriculum.modules[1].topics[1].lessons[1].title = DefaultTitle(W_Lesson, 1)

(***************************************************************************)
(* Claims about the reducer's totality                                     *)
(***************************************************************************)
\* C30: the reducer returns a tree for every intent on every tree the editor
\* reaches, the trees with modules appended from the stream included: it never
\* raises.
C30_ReducerNeverRaises == ~threw

====
